---- MODULE Spec2Model ----
(***************************************************************************)
(* Reader of ATM Level-1b QFIT binary files                                *)
(* (ATM1b_QFIT/read_ATM1b_QFIT_binary.py).                                 *)
(*                                                                         *)
(* A file is a sequence of bytes (0..255).  One call of                    *)
(* read_ATM1b_QFIT_binary or ATM1b_QFIT_shape is followed from the open of *)
(* the file to its return or its exception; the same call is then repeated *)
(* on the file that holds the same 32-bit words in the other byte order,   *)
(* or, when it had a SUBSETTER, on the same file without SUBSETTER.        *)
(*                                                                         *)
(* The functions of the time computations (ATM1b_QFIT/time.py and the      *)
(* helpers of the reader) are also called on their own, one call from its  *)
(* arguments to its return value (SpecTime).                               *)
(***************************************************************************)
EXTENDS Integers, Sequences, FiniteSets, TLC

(***************************************************************************)
(* Bounds of the explored inputs                                           *)
(***************************************************************************)
\* largest number of header filler records after the first record
MaxK == 2
\* largest number of complete data records
MaxRec == 2
\* length in bytes of the trailing partial record, when there is one
MaxTrail == 5
\* largest length of the arrays given to a time function called on its own
MaxTimes == 2
\* largest number of download attempts allowed to a call of http_pull_file
MaxRetry == 2

(***************************************************************************)
(* 32-bit words and bytes                                                  *)
(***************************************************************************)
\* dtype.itemsize of '>i4' and '<i4'
itemsize == 4

\* the four bytes of the two's-complement 32-bit word v, most significant
\* byte first
WordBytes(v) ==
    << (v \div 16777216) % 256, (v \div 65536) % 256, (v \div 256) % 256, v % 256 >>

Reverse(s) == [i \in 1..Len(s) |-> s[Len(s) + 1 - i]]

\* the bytes of v as a file of the given byte order holds them
EncodeWord(v, order) == IF order = ">i4" THEN WordBytes(v) ELSE Reverse(WordBytes(v))

\* variant: the two middle bytes of a little-endian word are exchanged
DecodeWordLE_MiddleSwapped(b) ==
    (IF b[4] >= 128 THEN b[4] - 256 ELSE b[4]) * 16777216
        + b[2] * 65536 + b[3] * 256 + b[1]

\* np.dtype('>i4') / np.dtype('<i4') applied to four bytes: signed 32-bit
DecodeWordLE(b) ==
    (IF b[4] >= 128 THEN b[4] - 256 ELSE b[4]) * 16777216
        + b[3] * 65536 + b[2] * 256 + b[1]
DecodeWord(b, dt) ==
    IF dt = ">i4"
    THEN (IF b[1] >= 128 THEN b[1] - 256 ELSE b[1]) * 16777216
            + b[2] * 65536 + b[3] * 256 + b[4]
    ELSE DecodeWordLE(b)

RECURSIVE Flatten(_)
Flatten(ss) == IF ss = <<>> THEN <<>> ELSE Head(ss) \o Flatten(Tail(ss))

\* the bytes of a sequence of words written in one byte order
EncodeWords(ws, order) == Flatten([i \in 1..Len(ws) |-> EncodeWord(ws[i], order)])

Min(a, b) == IF a < b THEN a ELSE b
Max(a, b) == IF a > b THEN a ELSE b

(***************************************************************************)
(* The explored files (word values, independent of the byte order)         *)
(***************************************************************************)
\* values of the first word of the file: 4*wc for wc = 3, 9..15, and 104
FirstWords == {12, 36, 40, 44, 48, 52, 56, 60, 104}

\* number of words per record the file is laid out with
LayoutWords(first) == IF first \div itemsize <= 16 THEN first \div itemsize ELSE 10

\* a record of nb words: its first word, nb-2 equal body words, a last word
RecordWords(first, body, last, nb) ==
    [i \in 1..nb |-> IF i = 1 THEN first ELSE IF i = nb THEN last ELSE body]

\* header filler records (first word negative, then text):
\*   "ABCD" ... "WXYZ";   "A\0 \0" ... "  \0\0"
HeaderTemplates ==
    { [first |-> -256, body |-> 1094861636, last |-> 1465407834],
      [first |-> -256, body |-> 1090527232, last |-> 538968064] }

\* a filler record whose text is Latin-1, not UTF-8: "caf\xe9" in every word
Latin1Record == [first |-> -256, body |-> 1667327721, last |-> 1667327721]

\* data records (first word non-negative)
DataTemplates ==
    { [first |-> 0, body |-> 2147483647, last |-> 153320100],
      [first |-> 128, body |-> -2147483647 - 1, last |-> 235959999] }

\* the first record of the file after its length word: the text "QFIT"
FirstRecord == [body |-> 1363560788, last |-> 1363560788]

SeqsUpTo(S, n) == UNION {[1..k -> S] : k \in 0..n}

\* the sequences of at most n records that start with a record of S and go
\* on with the records of S in turn
InTurnUpTo(S, n) ==
    UNION {{[i \in 1..k |-> IF i % 2 = 1 THEN x ELSE y] : y \in S \ {x}, k \in 0..n} : x \in S}

\* the filler records of a file: of the two texts in turn, or all Latin-1
HeaderRecords(n) ==
    InTurnUpTo(HeaderTemplates, n) \cup {[i \in 1..k |-> Latin1Record] : k \in 1..n}

\* the words of a file: the first record, the filler records, the data records
FileWords(first, hs, ds) ==
    LET nb == LayoutWords(first)
    IN  RecordWords(first, FirstRecord.body, FirstRecord.last, nb)
          \o Flatten([i \in 1..Len(hs) |-> RecordWords(hs[i].first, hs[i].body, hs[i].last, nb)])
          \o Flatten([i \in 1..Len(ds) |-> RecordWords(ds[i].first, ds[i].body, ds[i].last, nb)])

\* the bytes of a trailing partial record
TrailBytes(n) == [i \in 1..n |-> 255]

\* the file on disk: the words in one byte order, then the partial record
FileBytes(ws, tr, order) == EncodeWords(ws, order) \o TrailBytes(tr)

Orders == {">i4", "<i4"}
OtherOrder(o) == IF o = ">i4" THEN "<i4" ELSE ">i4"

\* SUBSETTER=None, or a list of record indices
NoSubset == [given |-> FALSE, idx |-> <<>>]
Subset(s) == [given |-> TRUE, idx |-> s]
Subsetters == {NoSubset, Subset(<<0>>), Subset(<<1, 0, 1>>), Subset(<<MaxRec>>)}

Entries == {"read_ATM1b_QFIT_binary", "ATM1b_QFIT_shape"}

(***************************************************************************)
(* Record layouts of read_ATM1b_QFIT_records                               *)
(***************************************************************************)
MAXARG == 14

\* variant: gps_pdop is scaled like the angles
scaling_table_PdopAsAngle ==
    << <<1000, 1000000, 1000000, 1000, 1, 1, 1000, 1000, 1000, 1000>>,
       <<1000, 1000000, 1000000, 1000, 1, 1, 1000, 1000, 1000, 1000, 1, 1000>>,
       <<1000, 1000000, 1000000, 1000, 1, 1, 1000, 1000, 1000, 1, 1000000,
         1000000, 1000, 1000>> >>

scaling_table ==
    << <<1000, 1000000, 1000000, 1000, 1, 1, 1000, 1000, 1000, 1000>>,
       <<1000, 1000000, 1000000, 1000, 1, 1, 1000, 1000, 1000, 10, 1, 1000>>,
       <<1000, 1000000, 1000000, 1000, 1, 1, 1000, 1000, 1000, 1, 1000000,
         1000000, 1000, 1000>> >>

variable_table ==
    << <<"rel_time", "latitude", "longitude", "elevation",
         "xmt_sigstr", "rcv_sigstr", "azimuth", "pitch", "roll", "time_hhmmss">>,
       <<"rel_time", "latitude", "longitude", "elevation",
         "xmt_sigstr", "rcv_sigstr", "azimuth", "pitch", "roll",
         "gps_pdop", "pulse_width", "time_hhmmss">>,
       <<"rel_time", "latitude", "longitude", "elevation",
         "xmt_sigstr", "rcv_sigstr", "azimuth", "pitch", "roll", "passive_sig",
         "pass_foot_lat", "pass_foot_long", "pass_foot_synth_elev", "time_hhmmss">> >>

dtype_table ==
    << <<"f", "f", "f", "f", "i", "i", "f", "f", "f", "f">>,
       <<"f", "f", "f", "f", "i", "i", "f", "f", "f", "f", "i", "f">>,
       <<"f", "f", "f", "f", "i", "i", "f", "f", "f", "i", "f", "f", "f", "f">> >>

\* the variant index w = (n_blocks-10)//2
VariantIndex(nb) == (nb - 10) \div 2

\* Python list indexing table[w]: 0-based, a negative index counts from the
\* end, an index outside -len..len-1 raises IndexError
IndexInRange(table, w) == w >= -Len(table) /\ w <= Len(table) - 1
PyIndex(table, w) == IF w >= 0 THEN table[w + 1] ELSE table[Len(table) + w + 1]

\* the least value of a signed 32-bit word
MinInt32 == -2147483647 - 1

\* 2^n
RECURSIVE Pow2(_)
Pow2(n) == IF n <= 0 THEN 1 ELSE 2 * Pow2(n - 1)

\* a value of np.float32: (-1)^neg * m * 2^e with 2^23 <= m < 2^24, or zero
Float32Zero == [neg |-> FALSE, m |-> 0, e |-> 0]
RECURSIVE Float32(_, _, _)
Float32(neg, m, e) ==
    IF m = 0 THEN Float32Zero
    ELSE IF m >= 16777216 THEN Float32(neg, m \div 2, e + 1)
    ELSE IF m < 8388608 THEN Float32(neg, 2 * m, e - 1)
    ELSE [neg |-> neg, m |-> m, e |-> e]

\* a/q rounded to the nearest integer, ties to even (a >= 0, q > 0)
RoundDiv(a, q) ==
    LET m == a \div q
        rem == a % q
        up == (2 * rem > q) \/ (2 * rem = q /\ m % 2 = 1)
    IN  IF up THEN m + 1 ELSE m

\* number of bits of a >= 0 above the 24 bits of a float32 significand
RECURSIVE ExcessBits(_)
ExcessBits(a) == IF a < 16777216 THEN 0 ELSE 1 + ExcessBits(a \div 2)

\* v.astype('f'): the float32 nearest to the 32-bit integer v (24-bit
\* significand, ties to even)
Float32OfInt(v) ==
    IF v = MinInt32 THEN Float32(TRUE, 8388608, 8)
    ELSE LET a == IF v < 0 THEN -v ELSE v
             k == ExcessBits(a)
         IN  Float32(v < 0, RoundDiv(a, Pow2(k)), k)

\* x/s in float32 arithmetic for a float32 x and a divisor s that float32
\* holds exactly: the quotient of the significand by s is developed bit by
\* bit up to 24 bits and rounded to nearest, ties to even
RECURSIVE DivideBits(_, _, _, _, _)
DivideBits(neg, q, rem, s, e) ==
    IF q = 0 /\ rem = 0 THEN Float32Zero
    ELSE IF q >= 8388608
    THEN LET up == (2 * rem > s) \/ (2 * rem = s /\ q % 2 = 1)
         IN  Float32(neg, IF up THEN q + 1 ELSE q, e)
    ELSE DivideBits(neg, 2 * q + (IF 2 * rem >= s THEN 1 ELSE 0), (2 * rem) % s, s, e - 1)
Float32Divide(x, s) == DivideBits(x.neg, x.m \div s, x.m % s, s, x.e)

\* variant: a negative quotient is cut to zero
IntQuotient_NegativeToZero(v, s) == IF v >= 0 THEN v \div s ELSE 0

\* v/s (true division) stored in an array of dtype 'i': cut towards zero
IntQuotient(v, s) == IF v >= 0 THEN v \div s ELSE (v + s - 1) \div s

\* np.zeros(..., dtype=d)[r]
ZeroOf(d) == IF d = "f" THEN Float32Zero ELSE 0

\* ATM_L1b_input[n][r] = v.astype(d)/s : the arrays of float columns are
\* np.dtype('f') and hold the quotient as a float32, the arrays of integer
\* columns hold the quotient cut to an integer
ScaleValue(v, d, s) ==
    IF d = "f" THEN Float32Divide(Float32OfInt(v), s) ELSE IntQuotient(v, s)

(***************************************************************************)
(* Byte strings of read_ATM1b_QFIT_header                                  *)
(***************************************************************************)
\* bytes.rstrip() strips ASCII whitespace: \t \n \v \f \r and space
Whitespace == {9, 10, 11, 12, 13, 32}

\* header_text[:-n] for n > 0 (the empty string when n exceeds the length)
DropLast(s, n) == SubSeq(s, 1, Max(Len(s) - n, 0))

\* header_text.replace(b'\x00', b'')
RemoveNUL(s) == SelectSeq(s, LAMBDA b : b # 0)

\* header_text.rstrip()
RECURSIVE RStrip(_)
RStrip(s) ==
    IF s # <<>> /\ s[Len(s)] \in Whitespace THEN RStrip(SubSeq(s, 1, Len(s) - 1)) ELSE s

\* header_text.decode('utf-8') succeeds on well-formed UTF-8 and raises
\* UnicodeDecodeError otherwise; the text is kept as its UTF-8 bytes
IsCont(b) == b >= 128 /\ b <= 191
RECURSIVE Utf8Valid(_)
Utf8Valid(s) ==
    IF s = <<>> THEN TRUE
    ELSE LET b == s[1]
             n == Len(s)
         IN  IF b < 128 THEN Utf8Valid(Tail(s))
             ELSE IF b >= 194 /\ b <= 223
                  THEN n >= 2 /\ IsCont(s[2]) /\ Utf8Valid(SubSeq(s, 3, n))
             ELSE IF b >= 224 /\ b <= 239
                  THEN n >= 3 /\ IsCont(s[2]) /\ IsCont(s[3])
                       /\ (b = 224 => s[2] >= 160) /\ (b = 237 => s[2] <= 159)
                       /\ Utf8Valid(SubSeq(s, 4, n))
             ELSE IF b >= 240 /\ b <= 244
                  THEN n >= 4 /\ IsCont(s[2]) /\ IsCont(s[3]) /\ IsCont(s[4])
                       /\ (b = 240 => s[2] >= 144) /\ (b = 244 => s[2] <= 143)
                       /\ Utf8Valid(SubSeq(s, 5, n))
             ELSE FALSE

\* fid.read(n) / np.fromfile at position p: the bytes that are there, at most n
ReadAt(f, p, n) == SubSeq(f, p + 1, Min(p + n, Len(f)))

\* the words of a byte string, decoded with dtype dt (whole words only)
WordsOf(b, dt) == [i \in 1..(Len(b) \div itemsize) |->
                      DecodeWord(SubSeq(b, itemsize * (i - 1) + 1, itemsize * i), dt)]

(***************************************************************************)
(* Unpacking of the packed GPS time (read_ATM1b_QFIT_records)              *)
(***************************************************************************)
DigitChar == <<"0", "1", "2", "3", "4", "5", "6", "7", "8", "9">>
DigitValue(c) == CHOOSE d \in 0..9 : DigitChar[d + 1] = c

\* the decimal digits of n >= 0
RECURSIVE DigitsOf(_)
DigitsOf(n) == IF n < 10 THEN <<DigitChar[n + 1]>>
               ELSE DigitsOf(n \div 10) \o <<DigitChar[(n % 10) + 1]>>

Zeros(n) == [i \in 1..n |-> "0"]

\* the float32 x as the decimal that the format prints: sign, whole part
\* and thousandths, the exact binary value rounded to three decimals, ties
\* to even (rem/2^d * 1000 = rem*125 / 2^(d-3))
Thousandths(x) ==
    IF x.m = 0 THEN [neg |-> FALSE, whole |-> 0, frac |-> 0]
    ELSE IF x.e >= 0 THEN [neg |-> x.neg, whole |-> x.m * Pow2(x.e), frac |-> 0]
    ELSE LET d == -x.e
             whole == IF d > 30 THEN 0 ELSE x.m \div Pow2(d)
             rem == IF d > 30 THEN x.m ELSE x.m % Pow2(d)
             fr == IF d <= 3 THEN rem * Pow2(3 - d) * 125
                   ELSE IF d <= 33 THEN RoundDiv(rem * 125, Pow2(d - 3))
                   ELSE IF d = 34 /\ rem * 125 > 1073741824 THEN 1
                   ELSE 0
         IN  IF fr = 1000 THEN [neg |-> x.neg, whole |-> whole + 1, frac |-> 0]
             ELSE [neg |-> x.neg, whole |-> whole, frac |-> fr]

\* '{0:010.3f}'.format(x): sign, zero padding up to a total width of 10,
\* integer digits, point, three decimals
Format010_3f(t) ==
    LET sign == IF t.neg THEN <<"-">> ELSE <<>>
        int == DigitsOf(t.whole)
        fr == DigitsOf(t.frac)
        frac == Zeros(3 - Len(fr)) \o fr
        pad == Max(10 - Len(sign) - Len(int) - 4, 0)
    IN  sign \o Zeros(pad) \o int \o <<".">> \o frac

\* Python slice s[a:b] of a string (0-based, b exclusive, clipped)
PySlice(s, a, b) == SubSeq(s, a + 1, Min(b, Len(s)))

\* np.float64(text) in thousandths, for sign, digits, point and decimals
RECURSIVE DigitsValue(_)
DigitsValue(cs) == IF cs = <<>> THEN 0
                   ELSE 10 * DigitsValue(SubSeq(cs, 1, Len(cs) - 1)) + DigitValue(cs[Len(cs)])
ParseMillis(t) ==
    LET neg == t # <<>> /\ t[1] = "-"
        u == IF neg THEN Tail(t) ELSE t
        dot == IF \E i \in 1..Len(u) : u[i] = "."
               THEN CHOOSE i \in 1..Len(u) : u[i] = "." ELSE Len(u) + 1
        ip == SubSeq(u, 1, dot - 1)
        fp == SubSeq(u, dot + 1, Len(u))
        fp3 == SubSeq(fp \o Zeros(3), 1, 3)
        v == 1000 * DigitsValue(ip) + DigitsValue(fp3)
    IN  IF neg THEN -v ELSE v

\* variant: the first character of the text is taken for padding
TimeFields_AfterPadding(t) ==
    [hour |-> ParseMillis(PySlice(t, 1, 3)) \div 1000,
     minute |-> ParseMillis(PySlice(t, 3, 5)) \div 1000,
     second |-> ParseMillis(PySlice(t, 5, Len(t)))]

\* np.float64(time_hhmmss[:2]), np.float64(time_hhmmss[2:4]) and
\* np.float64(time_hhmmss[4:]), the second in thousandths
TimeFields(t) ==
    [hour |-> ParseMillis(PySlice(t, 0, 2)) \div 1000,
     minute |-> ParseMillis(PySlice(t, 2, 4)) \div 1000,
     second |-> ParseMillis(PySlice(t, 4, Len(t)))]

(***************************************************************************)
(* Numbers of the time computations (ATM1b_QFIT/time.py)                   *)
(*                                                                         *)
(* A number is held exactly in base 86400, as                              *)
(*     hi*86400 + lo + f1/86400 + f2/(1000*86400^2)                        *)
(* with 0 <= lo < 86400, 0 <= f1 < 86400 and 0 <= f2 < 86400000: seconds   *)
(* beyond 2^31, days with a time of day in thousandths of a second and     *)
(* both scaled by 86400 or 1/86400 are of this form.  The rounding of the  *)
(* program's float64 arithmetic is not followed.                           *)
(***************************************************************************)
\* seconds per day
Base == 86400

Num(hi, lo, f1, f2) ==
    LET f1c == f1 + f2 \div (1000 * Base)
        loc == lo + f1c \div Base
    IN  [hi |-> hi + loc \div Base, lo |-> loc % Base,
         f1 |-> f1c % Base, f2 |-> f2 % (1000 * Base)]

\* the integer n
NumOfInt(n) == Num(0, n, 0, 0)

\* ms/1000 for an integer ms
NumOfMillis(ms) ==
    Num(0, ms \div 1000, ((ms % 1000) * 864) \div 10, (((ms % 1000) * 864) % 10) * 8640000)

NumAdd(x, y) == Num(x.hi + y.hi, x.lo + y.lo, x.f1 + y.f1, x.f2 + y.f2)
NumSub(x, y) == Num(x.hi - y.hi, x.lo - y.lo, x.f1 - y.f1, x.f2 - y.f2)

\* x >= y
NumGE(x, y) ==
    \/ x.hi > y.hi
    \/ x.hi = y.hi /\ x.lo > y.lo
    \/ x.hi = y.hi /\ x.lo = y.lo /\ x.f1 > y.f1
    \/ x.hi = y.hi /\ x.lo = y.lo /\ x.f1 = y.f1 /\ x.f2 >= y.f2

\* scale*x for a scale that is a power of 86400, given by its exponent:
\* 1.0 is 86400^0, 1.0/86400.0 is 86400^-1, 86400.0 is 86400^1
ScaleOne == 0
ScalePerDay == -1
ScaleSeconds == 1
NumScale(x, scale) ==
    IF scale = ScaleSeconds
    THEN Num(x.hi * Base + x.lo, x.f1, x.f2 \div 1000, (x.f2 % 1000) * Base)
    ELSE IF scale = ScalePerDay
    THEN Num(0, x.hi, x.lo, x.f1 * 1000 + x.f2 \div Base)
    ELSE x

(***************************************************************************)
(* datetime.datetime of an epoch and the difference of two of them        *)
(***************************************************************************)
IsLeapYear(y) == y % 4 = 0 /\ (y % 100 # 0 \/ y % 400 = 0)

DaysBeforeMonth == <<0, 31, 59, 90, 120, 151, 181, 212, 243, 273, 304, 334>>

DaysInMonth(y, m) ==
    IF m = 2 THEN (IF IsLeapYear(y) THEN 29 ELSE 28)
    ELSE IF m \in {4, 6, 9, 11} THEN 30 ELSE 31

\* datetime.toordinal(): days from 0001-01-01, which is day 1
DateOrdinal(y, m, d) ==
    (y - 1) * 365 + (y - 1) \div 4 - (y - 1) \div 100 + (y - 1) \div 400
        + DaysBeforeMonth[m] + (IF m > 2 /\ IsLeapYear(y) THEN 1 ELSE 0) + d

\* (epoch2 - epoch1).total_seconds() for epochs (year, month, day, hour,
\* minute, second)
EpochSeconds(epoch1, epoch2) ==
    Num(DateOrdinal(epoch2[1], epoch2[2], epoch2[3])
            - DateOrdinal(epoch1[1], epoch1[2], epoch1[3]),
        (epoch2[4] - epoch1[4]) * 3600 + (epoch2[5] - epoch1[5]) * 60
            + (epoch2[6] - epoch1[6]), 0, 0)

(***************************************************************************)
(* convert_delta_time and convert_calendar_dates                           *)
(***************************************************************************)
\* scale*(delta_time - delta_time_epochs)
convert_delta_time(delta_time, epoch1, epoch2, scale) ==
    NumScale(NumSub(delta_time, EpochSeconds(epoch1, epoch2)), scale)

\* np.floor((year + (month - 9.0)/7.0)/100.0), the division by 7 being a
\* float division: the floor of (7*year + month - 9)/700
CenturyTerm(year, month) == (7 * year + month - 9) \div 700

\* the whole days of MJD: 367.0*year - floor(7*(year + floor((month+9)/12))/4)
\* - floor(3*(century term + 1)/4) + floor(275*month/9) + day
\* + 1721028.5 - 2400000.5
MJDay(year, month, day) ==
    367 * year - (7 * (year + (month + 9) \div 12)) \div 4
        - (3 * (CenturyTerm(year, month) + 1)) \div 4
        + (275 * month) \div 9 + day + 1721028 - 2400000

\* hour/24.0 + minute/1440.0 + second/86400.0, second in thousandths
DayFraction(hour, minute, second) ==
    NumScale(NumOfMillis(hour * 3600000 + minute * 60000 + second), ScalePerDay)

MJD_epoch == <<1858, 11, 17, 0, 0, 0>>

\* scale*(MJD - delta_time_epochs/86400.0) for one date and time
convert_calendar_dates(year, month, day, hour, minute, second, epoch, scale) ==
    LET MJD == NumAdd(NumOfInt(MJDay(year, month, day)), DayFraction(hour, minute, second))
        delta_time_epochs == EpochSeconds(MJD_epoch, epoch)
    IN  NumScale(NumSub(MJD, NumScale(delta_time_epochs, ScalePerDay)), scale)

(***************************************************************************)
(* Leap seconds (get_leap_seconds, count_leap_seconds)                     *)
(***************************************************************************)
\* an entry of the leap second list: seconds since 1900-01-01, written as
\* days*86400 + secs, and the TAI-UTC offset from that time on
Leap(days, secs, tai_utc) == [days |-> days, secs |-> secs, tai_utc |-> tai_utc]

\* the two columns of data/leap-seconds.list as published by NIST and the
\* IETF (2272060800 10 ... 3692217600 37); every time is a midnight
LeapSecondsList ==
    << Leap(26297, 0, 10), Leap(26479, 0, 11), Leap(26663, 0, 12), Leap(27028, 0, 13),
       Leap(27393, 0, 14), Leap(27758, 0, 15), Leap(28124, 0, 16), Leap(28489, 0, 17),
       Leap(28854, 0, 18), Leap(29219, 0, 19), Leap(29766, 0, 20), Leap(30131, 0, 21),
       Leap(30496, 0, 22), Leap(31227, 0, 23), Leap(32141, 0, 24), Leap(32872, 0, 25),
       Leap(33237, 0, 26), Leap(33784, 0, 27), Leap(34149, 0, 28), Leap(34514, 0, 29),
       Leap(35063, 0, 30), Leap(35610, 0, 31), Leap(36159, 0, 32), Leap(38716, 0, 33),
       Leap(39812, 0, 34), Leap(41089, 0, 35), Leap(42184, 0, 36), Leap(42734, 0, 37) >>

\* TAI time is ahead of GPS by 19 seconds
TAI_GPS == 19

NTP_epoch == <<1900, 1, 1, 0, 0, 0>>
GPS_epoch == <<1980, 1, 6, 0, 0, 0>>

\* variant: the time of the second leap second of the pair is kept
LeapTimeUTC_SecondLeap(t) ==
    NumAdd(Num(t.days, t.secs, 0, 0), NumOfInt(t.tai_utc - TAI_GPS))

\* leap_UTC+TAI_UTC-TAI_GPS-1
LeapTimeUTC(t) ==
    NumAdd(Num(t.days, t.secs, 0, 0), NumOfInt(t.tai_utc - TAI_GPS - 1))

\* the GPS times of the leap seconds of a list; truncate keeps those >= 0
get_leap_seconds(list, truncate) ==
    LET leap_GPS == [i \in 1..Len(list) |->
                        convert_delta_time(LeapTimeUTC(list[i]), NTP_epoch, GPS_epoch, ScaleOne)]
    IN  IF truncate THEN SelectSeq(leap_GPS, LAMBDA g : NumGE(g, NumOfInt(0)))
        ELSE leap_GPS

\* variant: a leap second at exactly the GPS time is not counted
LeapElapsed_Strict(T, leap) == NumGE(T, leap) /\ T # leap

\* GPS_Time >= leap
LeapElapsed(T, leap) == NumGE(T, leap)

\* the loop over the leap seconds for one GPS time: n_leaps += 1.0 for
\* every leap second that has elapsed
RECURSIVE CountLeaps(_, _)
CountLeaps(leaps, T) ==
    IF leaps = <<>> THEN 0
    ELSE (IF LeapElapsed(T, Head(leaps)) THEN 1 ELSE 0) + CountLeaps(Tail(leaps), T)

\* get_leap_seconds(truncate=True) on the list above (evaluated once)
leap_GPS_of_list == get_leap_seconds(LeapSecondsList, TRUE)

\* n_leaps for an array of GPS times
count_leap_seconds(GPS_Time, list, truncate) ==
    LET leaps == IF truncate /\ list = LeapSecondsList THEN leap_GPS_of_list
                 ELSE get_leap_seconds(list, truncate)
    IN  [k \in 1..Len(GPS_Time) |-> CountLeaps(leaps, GPS_Time[k])]

(***************************************************************************)
(* The expiry of the leap second list and its refresh                      *)
(* (get_leap_seconds, update_leap_seconds)                                 *)
(***************************************************************************)
\* expiry < today, both in days since 1900-01-01
Expired(expiry, today) == expiry < today

\* ATM1b_QFIT.utilities.from_ftp and from_http on the local file: a download
\* that succeeds puts the list of the server in its place, one that raises
\* leaves it as it is
from_server(outcome, local, remote) == IF outcome = "ok" THEN remote ELSE local

\* variant: the exception of a download leaves the try statement
ExceptPass_Raise(e) == e

\* try: ... except: pass -- no exception leaves the statement
ExceptPass(e) == "ok"

\* update_leap_seconds: the NIST ftp server, then the IETF mirror; gives the
\* local file afterwards and the exception that leaves the function, if any
update_leap_seconds(local, net, remote) ==
    IF net.ftp = "ok"
    THEN [file |-> from_server(net.ftp, local, remote), raised |-> "ok"]
    ELSE IF ExceptPass(net.ftp) # "ok"
    THEN [file |-> from_server(net.ftp, local, remote), raised |-> ExceptPass(net.ftp)]
    ELSE IF net.http = "ok"
    THEN [file |-> from_server(net.http, local, remote), raised |-> "ok"]
    ELSE [file |-> from_server(net.http, local, remote), raised |-> ExceptPass(net.http)]

\* update_leap_seconds() if (expiry < today) else None
leap_seconds_file(local, net, remote) ==
    IF Expired(net.expiry, net.today) THEN update_leap_seconds(local, net, remote)
    ELSE [file |-> local, raised |-> "ok"]

\* the keyword arguments of a call that names none
NoKeywords == [k \in {} |-> FALSE]

\* time.count_leap_seconds(GPS_Time, truncate=True) called with positional
\* arguments after GPS_Time and with keyword arguments
count_leap_seconds_call(GPS_Time, positional, keywords, list) ==
    count_leap_seconds(GPS_Time, list,
                       IF positional # <<>> THEN positional[1]
                       ELSE IF "truncate" \in DOMAIN keywords THEN keywords["truncate"]
                       ELSE TRUE)

\* count_leap_seconds.count_leap_seconds(*args, **kwargs):
\* return read_ATM1b_QFIT_binary.time.count_leap_seconds(*args)
deprecated_count_leap_seconds(GPS_Time, positional, keywords, list) ==
    count_leap_seconds_call(GPS_Time, positional, NoKeywords, list)

(***************************************************************************)
(* calc_GPS_to_UTC, calc_julian_day and time_J2000                         *)
(***************************************************************************)
\* count_leap_seconds(convert_calendar_dates(..., epoch=(1980,1,6,0,0,0),
\* scale=1.0)) for a date and arrays of hour, minute and second
calc_GPS_to_UTC(YEAR, MONTH, DAY, HOUR, MINUTE, SECOND, list) ==
    LET GPS_Time == [k \in 1..Len(HOUR) |->
                        convert_calendar_dates(YEAR, MONTH, DAY, HOUR[k], MINUTE[k],
                                               SECOND[k], GPS_epoch, ScaleOne)]
    IN  count_leap_seconds(GPS_Time, list, TRUE)

\* 2400000.5 and 2451545.0
JD_of_MJD_epoch == Num(0, 2400000, Base \div 2, 0)
JD_of_J2000 == NumOfInt(2451545)

\* convert_calendar_dates(..., epoch=(1858,11,17,0,0,0), scale=1.0/86400.0)
\* + 2400000.5
calc_julian_day(YEAR, MONTH, DAY, HOUR, MINUTE, SECOND) ==
    [k \in 1..Len(HOUR) |->
        NumAdd(convert_calendar_dates(YEAR, MONTH, DAY, HOUR[k], MINUTE[k], SECOND[k],
                                      MJD_epoch, ScalePerDay),
               JD_of_MJD_epoch)]

\* S = calc_GPS_to_UTC(...); JD = calc_julian_day(..., second-S);
\* time_J2000 = (JD - 2451545.0)*86400.0   (second in thousandths)
TimeJ2000(date, h, m, sec, list) ==
    LET S == calc_GPS_to_UTC(date[1], date[2], date[3], h, m, sec, list)
        JD == calc_julian_day(date[1], date[2], date[3], h, m,
                              [k \in 1..Len(sec) |-> sec[k] - 1000 * S[k]])
    IN  [k \in 1..Len(JD) |-> NumScale(NumSub(JD[k], JD_of_J2000), ScaleSeconds)]

(***************************************************************************)
(* State                                                                   *)
(***************************************************************************)
VARIABLES
    input,          \* the file's content as word values: first word, filler
                    \* records, data records, length of the partial record
    order,          \* byte order the file of the current call is written in
    file,           \* the bytes of the file of the current call
    entry,          \* the function called
    SUBSETTER,      \* its SUBSETTER argument
    call,           \* 1: first call, 2: the call on the other byte order,
                    \* 3: the call without SUBSETTER
    prev,           \* what the first call handed back (before call 3 also
                    \* the indices it was given, as field idx)
    pc,             \* position of the call
    fid_open,       \* the file object is open
    st_size,        \* file_info.st_size
    pos,            \* position of the stream fid
    dtype,          \* byte order found by get_record_length
    n_blocks,       \* words per record found by get_record_length
    value0,         \* value[0] of read_ATM1b_QFIT_header
    header_count,
    header_text,
    n_records,
    offsets,        \* SUBSETTER converted to byte offsets
    r,              \* number of records read by read_ATM1b_QFIT_records
    ATM_L1b_input,  \* field name -> array
    hour, minute, second,
    result,         \* what the call handed back: nothing yet, a value or an exception
    fn,             \* a function of the time computations called on its own
    args,           \* its arguments
    ret,            \* what it returned
    pin,            \* the arguments of a call of http_pull_file and what the
                    \* server holds
    fs,             \* the local files: name -> absent, or time, mode, content
    before,         \* the local files when the call began
    ppc,            \* position of the call of http_pull_file
    local_file,     \* the name the call writes to
    TEST,
    retry_counter,
    fid,            \* the response of the server, once a request succeeded
    attempts,       \* number of requests made by the call
    pcall,          \* 1: first call, 2: the call repeated
    pprev,          \* where the first call ended
    presult         \* the exception the call ended with, if any

\* the variables of a call of the reader
rvars == << input, order, file, entry, SUBSETTER, call, prev, pc, fid_open, st_size,
            pos, dtype, n_blocks, value0, header_count, header_text, n_records,
            offsets, r, ATM_L1b_input, hour, minute, second, result >>

\* the variables of a call of a time function
tvars == << fn, args, ret >>

\* the variables of a call of http_pull_file
pvars == << pin, fs, before, ppc, local_file, TEST, retry_counter, fid, attempts,
            pcall, pprev, presult >>

vars == << rvars, tvars, pvars >>

\* locals of a call that are not assigned yet hold 0 or the empty value
NoArrays == [n \in {} |-> <<>>]
NoResult == [kind |-> "none"]
Raised(e) == [kind |-> "exception", error |-> e]

InputWords == FileWords(input.first, input.hs, input.ds)

(***************************************************************************)
(* The date in the name of the file.  A name is a sequence of characters.  *)
(***************************************************************************)
IsDigit(c) == \E k \in 1..10 : DigitChar[k] = c
AllDigits(s) == \A k \in 1..Len(s) : IsDigit(s[k])

\* (BLATM1B|ILATM1B|ILNSA1B)
Missions == { << "B", "L", "A", "T", "M", "1", "B" >>,
              << "I", "L", "A", "T", "M", "1", "B" >>,
              << "I", "L", "N", "S", "A", "1", "B" >> }

\* (.*?)\.qi$ on what follows the date: any characters, then .qi at the end
EndsWithQi(s) ==
    Len(s) >= 3 /\ SubSeq(s, Len(s) - 2, Len(s)) = << ".", "q", "i" >>

NoMatch == [matched |-> FALSE]

\* the groups 2, 5 and 6 of a match whose year has w digits; group 4 is
\* set when the second alternative of the year matched
Groups(s, w) ==
    [matched |-> TRUE,
     group2 |-> SubSeq(s, 1, w),
     group4 |-> IF w = 2 THEN SubSeq(s, 1, w) ELSE <<>>,
     group5 |-> SubSeq(s, w + 1, w + 2),
     group6 |-> SubSeq(s, w + 3, w + 4)]

\* one alternative of the year: w digits, two for the month, two for the
\* day, and the end of the pattern on what is left
YearMatches(s, w) ==
    /\ Len(s) >= w + 4
    /\ AllDigits(SubSeq(s, 1, w + 4))
    /\ EndsWithQi(SubSeq(s, w + 5, Len(s)))

\* rx.match(basename): the match is anchored at the start of the name, and
\* the year of four digits is tried before the year of two digits
rx_match(name) ==
    IF Len(name) < 8 \/ SubSeq(name, 1, 7) \notin Missions \/ name[8] # "_"
    THEN NoMatch
    ELSE LET s == SubSeq(name, 9, Len(name))
         IN  IF YearMatches(s, 4) THEN Groups(s, 4)
             ELSE IF YearMatches(s, 2) THEN Groups(s, 2)
             ELSE NoMatch

\* variant: 90 itself is read as a year of this century
ShortYear_After90(year) == IF year > 90 THEN year + 1900 ELSE year + 2000

\* early date strings omitted century and millenia
ShortYear(year) == IF year >= 90 THEN year + 1900 ELSE year + 2000

\* year, month and day of the name; a name without a match has no groups
FilenameDate(name) ==
    LET m == rx_match(name)
    IN  IF ~m.matched THEN Raised("AttributeError")
        ELSE LET year == DigitsValue(m.group2)
             IN  [kind |-> "date",
                  value |-> << IF m.group4 # <<>> THEN ShortYear(year) ELSE year,
                               DigitsValue(m.group5), DigitsValue(m.group6) >>]

\* ILATM1B_20110315_1.qi, and a name of another product
Basenames ==
    { << "I", "L", "A", "T", "M", "1", "B", "_", "2", "0", "1", "1", "0", "3",
         "1", "5", "_", "1", ".", "q", "i" >>,
      << "I", "L", "A", "T", "M", "2", "_", "2", "0", "1", "1", "0", "3",
         "1", "5", "_", "1", ".", "q", "i" >> }
GoodName(name) == rx_match(name).matched
FileDate == FilenameDate(input.name).value


\* no time function is called on its own
NoValue == <<>>
NoFunction == fn = "none" /\ args = NoValue /\ ret = NoResult

\* http_pull_file is not called
NoPull ==
    /\ pin = NoValue
    /\ fs = NoValue
    /\ before = NoValue
    /\ ppc = "none"
    /\ local_file = ""
    /\ TEST = FALSE
    /\ retry_counter = 0
    /\ fid = "unbound"
    /\ attempts = 0
    /\ pcall = 0
    /\ pprev = "none"
    /\ presult = NoResult

FreshCall ==
    /\ pc = "open"
    /\ fid_open = FALSE
    /\ st_size = 0
    /\ pos = 0
    /\ dtype = ">i4"
    /\ n_blocks = 0
    /\ value0 = 0
    /\ header_count = 0
    /\ header_text = <<>>
    /\ n_records = 0
    /\ offsets = <<>>
    /\ r = 0
    /\ ATM_L1b_input = NoArrays
    /\ hour = <<>>
    /\ minute = <<>>
    /\ second = <<>>
    /\ result = NoResult

Init ==
    /\ \E first \in FirstWords, hs \in HeaderRecords(MaxK),
          ds \in InTurnUpTo(DataTemplates, MaxRec), tr \in {0, MaxTrail} :
          \E name \in Basenames :
            input = [first |-> first, hs |-> hs, ds |-> ds, trail |-> tr, name |-> name]
    /\ order \in Orders
    /\ file = FileBytes(InputWords, input.trail, order)
    /\ \E e \in Entries, sub \in Subsetters :
          /\ e = "ATM1b_QFIT_shape" => sub = NoSubset /\ GoodName(input.name)
          /\ entry = e
          /\ SUBSETTER = sub
    /\ call = 1
    /\ prev = NoResult
    /\ FreshCall
    /\ NoFunction
    /\ NoPull

(***************************************************************************)
(* Opening the file                                                        *)
(***************************************************************************)
\* os.open, os.fstat, os.fdopen; read_ATM1b_QFIT_binary then takes the date
\* from the groups of the match, which a name without a match does not have
Open ==
    /\ pc = "open"
    /\ fid_open' = TRUE
    /\ st_size' = Len(file)
    /\ pos' = 0
    /\ IF entry = "read_ATM1b_QFIT_binary" /\ FilenameDate(input.name).kind # "date"
       THEN pc' = "raised" /\ result' = FilenameDate(input.name)
       ELSE pc' = "get_record_length" /\ UNCHANGED result
    /\ UNCHANGED << input, order, file, entry, SUBSETTER, call, prev, dtype, n_blocks,
                    value0, header_count, header_text, n_records, offsets, r,
                    ATM_L1b_input, hour, minute, second >>
    /\ UNCHANGED << tvars, pvars >>

(***************************************************************************)
(* get_record_length                                                       *)
(***************************************************************************)
\* a first word above this value, read big-endian, means little-endian
SwapThreshold == 100

\* the first word of the file read with dtype dt
FirstWordValue(f, dt) == DecodeWord(ReadAt(f, 0, itemsize), dt)

\* variant: the swap is made only when the big-endian value is negative
DetectDtype_SwapOnNegative(f) ==
    IF FirstWordValue(f, ">i4") < 0 THEN "<i4" ELSE ">i4"

\* big-endian is assumed; a value above the threshold swaps to little-endian
DetectDtype(f) ==
    IF FirstWordValue(f, ">i4") > SwapThreshold THEN "<i4" ELSE ">i4"

\* n_blocks = value//dtype.itemsize, value reread with the detected dtype
DetectBlocks(f) == FirstWordValue(f, DetectDtype(f)) \div itemsize

\* variant: the stream is left at the start of the file
PosAfterFirstRecord_Rewound(f, nb) == 0

\* position after fid.seek(0) and np.fromfile(fid, dtype, count=n_blocks):
\* the words that are there, all of them when the count is negative
PosAfterFirstRecord(f, nb) ==
    itemsize * (IF nb < 0 THEN Len(f) \div itemsize ELSE Min(nb, Len(f) \div itemsize))

get_record_length ==
    /\ pc = "get_record_length"
    /\ IF st_size < itemsize
       THEN \* value, = np.fromfile(...) of an empty array
            /\ pc' = "raised"
            /\ result' = Raised("ValueError")
            /\ pos' = st_size
            /\ UNCHANGED << dtype, n_blocks >>
       ELSE /\ dtype' = DetectDtype(file)
            /\ n_blocks' = DetectBlocks(file)
            /\ pos' = PosAfterFirstRecord(file, DetectBlocks(file))
            /\ pc' = "check_MAXARG"
            /\ UNCHANGED result
    /\ UNCHANGED << input, order, file, entry, SUBSETTER, call, prev, fid_open, st_size,
                    value0, header_count, header_text, n_records, offsets, r,
                    ATM_L1b_input, hour, minute, second >>
    /\ UNCHANGED << tvars, pvars >>

\* variant: the limit is one too high
TooManyBlocks_OffByOne(nb) == nb > MAXARG + 1

\* if (n_blocks > MAXARG): raise Exception
TooManyBlocks(nb) == nb > MAXARG

check_MAXARG ==
    /\ pc = "check_MAXARG"
    /\ IF TooManyBlocks(n_blocks)
       THEN /\ pc' = "raised"
            /\ result' = Raised("Exception: Unexpected number of variables")
       ELSE /\ pc' = "read_ATM1b_QFIT_header"
            /\ UNCHANGED result
    /\ UNCHANGED << input, order, file, entry, SUBSETTER, call, prev, fid_open, st_size,
                    pos, dtype, n_blocks, value0, header_count, header_text, n_records,
                    offsets, r, ATM_L1b_input, hour, minute, second >>
    /\ UNCHANGED << tvars, pvars >>

(***************************************************************************)
(* read_ATM1b_QFIT_header                                                  *)
(***************************************************************************)
\* header_count = 0; header_text = b''; value = np.full((n_blocks), -1)
header_begin ==
    /\ pc = "read_ATM1b_QFIT_header"
    /\ IF n_blocks < 0
       THEN \* np.full of a negative dimension
            /\ pc' = "raised"
            /\ result' = Raised("ValueError")
            /\ UNCHANGED << value0, header_count, header_text >>
       ELSE IF n_blocks = 0
       THEN \* value[0] of an empty array
            /\ pc' = "raised"
            /\ result' = Raised("IndexError")
            /\ UNCHANGED << value0, header_count, header_text >>
       ELSE /\ header_count' = 0
            /\ header_text' = <<>>
            /\ value0' = -1
            /\ pc' = "header_while"
            /\ UNCHANGED result
    /\ UNCHANGED << input, order, file, entry, SUBSETTER, call, prev, fid_open, st_size,
                    pos, dtype, n_blocks, n_records, offsets, r, ATM_L1b_input,
                    hour, minute, second >>
    /\ UNCHANGED << tvars, pvars >>

\* variant: the count advances by words instead of bytes
NextHeaderCount_InWords(hc, nb) == hc + nb

\* header_count += dtype.itemsize*n_blocks
NextHeaderCount(hc, nb) == hc + itemsize * nb

\* header_text += bytes(line[dtype.itemsize:])
LineText(line) == SubSeq(line, itemsize + 1, Len(line))

\* variant: a first word of zero goes on with the loop as well
HeaderContinues_AtZero(v) == v <= 0

\* while (value[0] < 0)
HeaderContinues(v) == v < 0

\* one pass of the loop body: read a record, keep what follows its first word
header_read ==
    /\ pc = "header_while"
    /\ HeaderContinues(value0)
    /\ LET line == ReadAt(file, pos, n_blocks * itemsize)
       IN  /\ pos' = pos + Len(line)
           /\ IF Len(line) < n_blocks * itemsize
              THEN \* np.frombuffer: buffer is smaller than requested size
                   /\ pc' = "raised"
                   /\ result' = Raised("ValueError")
                   /\ UNCHANGED << value0, header_count, header_text >>
              ELSE /\ value0' = DecodeWord(SubSeq(line, 1, itemsize), dtype)
                   /\ header_text' = header_text \o LineText(line)
                   /\ header_count' = NextHeaderCount(header_count, n_blocks)
                   /\ UNCHANGED << pc, result >>
    /\ UNCHANGED << input, order, file, entry, SUBSETTER, call, prev, fid_open, st_size,
                    dtype, n_blocks, n_records, offsets, r, ATM_L1b_input,
                    hour, minute, second >>
    /\ UNCHANGED << tvars, pvars >>

\* header_text = header_text[:-dtype.itemsize*n_blocks]
HeaderTrim(text, nb) == DropLast(text, itemsize * nb)

\* header_text.replace(b'\x00',b'').rstrip()
HeaderClean(text) == RStrip(RemoveNUL(text))

\* variant: one more record is taken back
RewindPosition_OneRecordBack(hc, nb) == hc - itemsize * nb

\* fid.seek(header_count): the start of the record read last
RewindPosition(hc, nb) == hc

\* the loop ends: rewind to the record read last, trim and clean the text
header_end ==
    /\ pc = "header_while"
    /\ ~ HeaderContinues(value0)
    /\ pos' = RewindPosition(header_count, n_blocks)
    /\ LET text == HeaderClean(HeaderTrim(header_text, n_blocks))
       IN  /\ header_text' = text
           /\ IF Utf8Valid(text)
              THEN /\ pc' = "count_records"
                   /\ UNCHANGED result
              ELSE /\ pc' = "raised"
                   /\ result' = Raised("UnicodeDecodeError")
    /\ UNCHANGED << input, order, file, entry, SUBSETTER, call, prev, fid_open, st_size,
                    dtype, n_blocks, value0, header_count, n_records, offsets, r,
                    ATM_L1b_input, hour, minute, second >>
    /\ UNCHANGED << tvars, pvars >>

(***************************************************************************)
(* Number of records                                                       *)
(***************************************************************************)
\* variant: the header is counted as data
RecordCount_WithHeader(size, hc, nb) == (size \div nb) \div itemsize

\* (file_info.st_size-header_count)//n_blocks//dtype.itemsize
RecordCount(size, hc, nb) == ((size - hc) \div nb) \div itemsize

\* variant: the offsets are counted from the start of the file
SubsetOffsets_NoHeader(idx, hc, nb) == [j \in 1..Len(idx) |-> itemsize * (idx[j] * nb)]

\* header_count + dtype.itemsize*(np.array(SUBSETTER)*n_blocks)
SubsetOffsets(idx, hc, nb) == [j \in 1..Len(idx) |-> hc + itemsize * (idx[j] * nb)]

\* ATM1b_QFIT_shape: count the records, close the file, return the count
shape_return ==
    /\ pc = "count_records"
    /\ entry = "ATM1b_QFIT_shape"
    /\ n_records' = RecordCount(st_size, header_count, n_blocks)
    /\ fid_open' = FALSE
    /\ result' = [kind |-> "shape", n_records |-> RecordCount(st_size, header_count, n_blocks)]
    /\ pc' = "returned"
    /\ UNCHANGED << input, order, file, entry, SUBSETTER, call, prev, st_size, pos, dtype,
                    n_blocks, value0, header_count, header_text, offsets, r,
                    ATM_L1b_input, hour, minute, second >>
    /\ UNCHANGED << tvars, pvars >>

\* read_ATM1b_QFIT_binary: number of records with and without subsetter
count_records ==
    /\ pc = "count_records"
    /\ entry = "read_ATM1b_QFIT_binary"
    /\ IF SUBSETTER.given
       THEN /\ n_records' = Len(SUBSETTER.idx)
            /\ offsets' = SubsetOffsets(SUBSETTER.idx, header_count, n_blocks)
       ELSE /\ n_records' = RecordCount(st_size, header_count, n_blocks)
            /\ offsets' = <<>>
    /\ pc' = "read_ATM1b_QFIT_records"
    /\ UNCHANGED << input, order, file, entry, SUBSETTER, call, prev, fid_open, st_size,
                    pos, dtype, n_blocks, value0, header_count, header_text, r,
                    ATM_L1b_input, hour, minute, second, result >>
    /\ UNCHANGED << tvars, pvars >>

(***************************************************************************)
(* read_ATM1b_QFIT_records                                                 *)
(***************************************************************************)
\* zip(variable_table[w], dtype_table[w]): as many columns as the shorter list
LayoutColumns(w) ==
    1..Min(Len(PyIndex(variable_table, w)), Len(PyIndex(dtype_table, w)))

LayoutNames(w) == {PyIndex(variable_table, w)[c] : c \in LayoutColumns(w)}

\* the dtype of the array of field n (the last column of that name)
ColumnOf(w, n) ==
    CHOOSE c \in LayoutColumns(w) :
        /\ PyIndex(variable_table, w)[c] = n
        /\ \A c2 \in LayoutColumns(w) : PyIndex(variable_table, w)[c2] = n => c2 <= c

\* ATM_L1b_input[n] = np.zeros((n_records), dtype=np.dtype(d))
ZeroArrays(w, n) ==
    [name \in LayoutNames(w) |->
        [k \in 1..n |-> ZeroOf(PyIndex(dtype_table, w)[ColumnOf(w, name)])]]

\* w, the tables, the output arrays and hour, minute, second
records_begin ==
    /\ pc = "read_ATM1b_QFIT_records"
    /\ LET w == VariantIndex(n_blocks)
       IN  IF ~ IndexInRange(variable_table, w) \/ ~ IndexInRange(dtype_table, w)
           THEN \* variable_table[w] of a list of three
                /\ pc' = "raised"
                /\ result' = Raised("IndexError")
                /\ UNCHANGED << ATM_L1b_input, hour, minute, second, r >>
           ELSE /\ ATM_L1b_input' = ZeroArrays(w, n_records)
                /\ hour' = [k \in 1..n_records |-> 0]
                /\ minute' = [k \in 1..n_records |-> 0]
                /\ second' = [k \in 1..n_records |-> 0]
                /\ r' = 0
                /\ pc' = "for_records"
                /\ UNCHANGED result
    /\ UNCHANGED << input, order, file, entry, SUBSETTER, call, prev, fid_open, st_size,
                    pos, dtype, n_blocks, value0, header_count, header_text, n_records,
                    offsets >>
    /\ UNCHANGED << tvars, pvars >>

\* zip(i, variable_table[w], dtype_table[w], scaling_table[w]): the columns
\* that receive a value from the words i of one record
AssignedColumns(i, w) ==
    1..Min(Min(Len(i), Len(PyIndex(variable_table, w))),
           Min(Len(PyIndex(dtype_table, w)), Len(PyIndex(scaling_table, w))))

\* the arrays after ATM_L1b_input[n][r] = v.astype(d)/s for every column
\* (k is the 1-based place of record r; a later column of a name wins)
StoreRecord(arrays, i, w, k) ==
    [name \in DOMAIN arrays |->
        LET cols == {c \in AssignedColumns(i, w) : PyIndex(variable_table, w)[c] = name}
        IN  IF cols = {} THEN arrays[name]
            ELSE LET c == CHOOSE c1 \in cols : \A c2 \in cols : c2 <= c1
                 IN  [arrays[name] EXCEPT ![k] =
                        ScaleValue(i[c], PyIndex(dtype_table, w)[c],
                                   PyIndex(scaling_table, w)[c])]]

\* one pass of the loop over the records
records_read ==
    /\ pc = "for_records"
    /\ r < n_records
    /\ LET w == VariantIndex(n_blocks)
           at == IF SUBSETTER.given THEN offsets[r + 1] ELSE pos
           i == WordsOf(ReadAt(file, at, n_blocks * itemsize), dtype)
           arrays == StoreRecord(ATM_L1b_input, i, w, r + 1)
           time_hhmmss == Format010_3f(Thousandths(arrays["time_hhmmss"][r + 1]))
       IN  /\ pos' = Min(at, st_size) + itemsize * Len(i)
           /\ ATM_L1b_input' = arrays
           /\ hour' = [hour EXCEPT ![r + 1] = TimeFields(time_hhmmss).hour]
           /\ minute' = [minute EXCEPT ![r + 1] = TimeFields(time_hhmmss).minute]
           /\ second' = [second EXCEPT ![r + 1] = TimeFields(time_hhmmss).second]
    /\ r' = r + 1
    /\ UNCHANGED << input, order, file, entry, SUBSETTER, call, prev, pc, fid_open,
                    st_size, dtype, n_blocks, value0, header_count, header_text,
                    n_records, offsets, result >>
    /\ UNCHANGED << tvars, pvars >>

\* after the loop: time_J2000 is added, the file is closed, the data returned
records_end ==
    /\ pc = "for_records"
    /\ r >= n_records
    /\ LET data == [name \in DOMAIN ATM_L1b_input \cup {"time_J2000"} |->
                      IF name = "time_J2000"
                      THEN TimeJ2000(FileDate, hour, minute, second, LeapSecondsList)
                      ELSE ATM_L1b_input[name]]
       IN  /\ ATM_L1b_input' = data
           /\ result' = [kind |-> "dataset", data |-> data, header_text |-> header_text]
    /\ fid_open' = FALSE
    /\ pc' = "returned"
    /\ UNCHANGED << input, order, file, entry, SUBSETTER, call, prev, st_size, pos, dtype,
                    n_blocks, value0, header_count, header_text, n_records, offsets, r,
                    hour, minute, second >>
    /\ UNCHANGED << tvars, pvars >>

(***************************************************************************)
(* The same call on the file written in the other byte order               *)
(***************************************************************************)
OtherByteOrder ==
    /\ pc \in {"returned", "raised"}
    /\ call = 1
    /\ call' = 2
    /\ prev' = result
    /\ order' = OtherOrder(order)
    /\ file' = FileBytes(InputWords, input.trail, OtherOrder(order))
    /\ pc' = "open"
    /\ fid_open' = FALSE
    /\ st_size' = 0
    /\ pos' = 0
    /\ dtype' = ">i4"
    /\ n_blocks' = 0
    /\ value0' = 0
    /\ header_count' = 0
    /\ header_text' = <<>>
    /\ n_records' = 0
    /\ offsets' = <<>>
    /\ r' = 0
    /\ ATM_L1b_input' = NoArrays
    /\ hour' = <<>>
    /\ minute' = <<>>
    /\ second' = <<>>
    /\ result' = NoResult
    /\ UNCHANGED << input, entry, SUBSETTER >>
    /\ UNCHANGED << tvars, pvars >>

(***************************************************************************)
(* The call with SUBSETTER repeated on the same file without SUBSETTER     *)
(***************************************************************************)
WithoutSubsetter ==
    /\ pc \in {"returned", "raised"}
    /\ call = 1
    /\ SUBSETTER.given
    /\ call' = 3
    /\ prev' = result @@ [idx |-> SUBSETTER.idx]
    /\ SUBSETTER' = NoSubset
    /\ pc' = "open"
    /\ fid_open' = FALSE
    /\ st_size' = 0
    /\ pos' = 0
    /\ dtype' = ">i4"
    /\ n_blocks' = 0
    /\ value0' = 0
    /\ header_count' = 0
    /\ header_text' = <<>>
    /\ n_records' = 0
    /\ offsets' = <<>>
    /\ r' = 0
    /\ ATM_L1b_input' = NoArrays
    /\ hour' = <<>>
    /\ minute' = <<>>
    /\ second' = <<>>
    /\ result' = NoResult
    /\ UNCHANGED << input, order, file, entry >>
    /\ UNCHANGED << tvars, pvars >>

Next ==
    \/ Open
    \/ get_record_length
    \/ check_MAXARG
    \/ header_begin
    \/ header_read
    \/ header_end
    \/ shape_return
    \/ count_records
    \/ records_begin
    \/ records_read
    \/ records_end
    \/ OtherByteOrder
    \/ WithoutSubsetter

Spec == Init /\ [][Next]_vars

\* a call is one thread of control: the statement it stands at is executed,
\* so the loop of the header takes its next pass or is left
InitHeader == Init /\ entry = "ATM1b_QFIT_shape"

\* ATM1b_QFIT_shape: the header is read as in read_ATM1b_QFIT_binary, and the
\* records are counted, not read
NextHeader ==
    \/ Open
    \/ get_record_length
    \/ check_MAXARG
    \/ header_begin
    \/ header_read
    \/ header_end
    \/ shape_return
    \/ OtherByteOrder

SpecHeader ==
    InitHeader /\ [][NextHeader]_vars /\ WF_vars(header_read) /\ WF_vars(header_end)

(***************************************************************************)
(* The time functions called on their own                                  *)
(***************************************************************************)
\* no call of the reader is under way
NoReaderCall ==
    /\ input = [first |-> 0, hs |-> <<>>, ds |-> <<>>, trail |-> 0, name |-> <<>>]
    /\ order = ">i4"
    /\ file = <<>>
    /\ entry = "none"
    /\ SUBSETTER = NoSubset
    /\ call = 0
    /\ prev = NoResult
    /\ FreshCall

Returned(v) == [kind |-> "value", value |-> v]

\* the texts 0153320.100 and 153320.100 and texts that the format makes of
\* packed times
PaddedText == <<"0", "1", "5", "3", "3", "2", "0", ".", "1", "0", "0">>
PackedTimes == {0, 5009, 93320125, 153320100, 153320125, 235959999}
TimeTexts ==
    {PaddedText, Tail(PaddedText)} \cup {Format010_3f(Thousandths(ScaleValue(v, "f", 1000))) : v \in PackedTimes}

\* leap second lists: the file as it stood in 1980, in 1981 and now, and a
\* list with a leap second that falls on the GPS epoch itself
LeapLists ==
    { SubSeq(LeapSecondsList, 1, 10), SubSeq(LeapSecondsList, 1, 11), LeapSecondsList,
      << Leap(29219, 0, 19), Leap(29224, 0, 20), Leap(29766, 0, 21) >> }

\* the list on the servers
RemoteList == LeapSecondsList

\* the expiry of the local list and the day of the call (days since
\* 1900-01-01), and what the two servers answer: a list that has not expired
\* on the day of the call, and one that has, with every answer of the servers
Refreshes ==
    { [expiry |-> 46200, today |-> 46200, ftp |-> "error", http |-> "error"] }
      \cup { [expiry |-> 46200, today |-> 46201, ftp |-> f, http |-> h] :
                 f \in {"ok", "error"}, h \in {"ok", "error"} }

\* the ways truncate is passed: not at all, by position, by keyword
TruncateArguments ==
    { [positional |-> <<>>, keywords |-> NoKeywords] }
      \cup { [positional |-> <<t>>, keywords |-> NoKeywords] : t \in BOOLEAN }
      \cup { [positional |-> <<>>, keywords |-> [k \in {"truncate"} |-> t]] : t \in BOOLEAN }

\* GPS times around the leap seconds of the lists, whole and fractional
GPSTimes ==
    { NumOfInt(-300000000), NumOfInt(-432002), NumOfInt(-432001), NumOfInt(-1),
      NumOfInt(0), NumOfInt(46828799), NumAdd(NumOfInt(46828799), NumOfMillis(500)),
      NumOfInt(46828800), NumOfInt(1167264016), NumOfInt(1167264017),
      NumOfInt(1300000000) }

CalendarYears == {1900, 1901, 2000, 2011}
CalendarDates ==
    {d \in CalendarYears \X (1..12) \X (1..31) : d[3] <= DaysInMonth(d[1], d[2])}
\* hour, minute and second in thousandths
TimesOfDay == { <<0, 0, 0>>, <<15, 33, 20100>>, <<23, 59, 59999>> }
Epochs == { MJD_epoch, GPS_epoch, <<1992, 1, 1, 0, 0, 0>>, <<2000, 1, 1, 12, 0, 0>> }
Scales == {ScaleOne, ScalePerDay, ScaleSeconds}
GPSDates == { <<1980, 1, 6>>, <<1981, 7, 1>>, <<2011, 3, 15>> }
JulianDates == { <<2000, 1, 1>>, <<2000, 1, 2>>, <<2011, 3, 15>> }

\* dates and ends of names: ILATM1B_20110315_1.qi, BLATM1B_930701_1.qi
DateTexts ==
    { << "2", "0", "1", "1", "0", "3", "1", "5" >>,
      << "1", "9", "9", "3", "0", "7", "0", "1" >>,
      << "9", "3", "0", "7", "0", "1" >>,
      << "9", "0", "0", "1", "0", "1" >>,
      << "8", "9", "0", "7", "0", "1" >>,
      << "0", "0", "0", "2", "2", "9" >> }
Rests ==
    { << "_", "1", ".", "q", "i" >>,
      << ".", "q", "i" >>,
      << "1", "2", ".", "q", "i" >>,
      << "1", ".", "q", "i" >>,
      << "_", "1", ".", "h", "5" >> }
Name(mission, date, rest) == mission \o << "_" >> \o date \o rest

InitTime ==
    /\ NoReaderCall
    /\ NoPull
    /\ ret = NoResult
    /\ \/ /\ fn = "unpack_time"
          /\ \E t \in TimeTexts : args = [text |-> t]
       \/ /\ fn = "get_leap_seconds"
          /\ \E l \in LeapLists, t \in BOOLEAN, n \in Refreshes :
                args = [list |-> l, truncate |-> t, net |-> n, remote |-> RemoteList]
       \/ /\ fn = "count_leap_seconds"
          /\ \E g \in SeqsUpTo(GPSTimes, MaxTimes), l \in LeapLists, t \in BOOLEAN,
                n \in Refreshes :
                args = [GPS_Time |-> g, list |-> l, truncate |-> t, net |-> n,
                        remote |-> RemoteList]
       \/ /\ fn = "count_leap_seconds.count_leap_seconds"
          /\ \E g \in SeqsUpTo(GPSTimes, MaxTimes), l \in LeapLists, a \in TruncateArguments :
                args = [GPS_Time |-> g, list |-> l, positional |-> a.positional,
                        keywords |-> a.keywords]
       \/ /\ fn = "convert_calendar_dates"
          /\ \E d \in CalendarDates, t \in TimesOfDay, e \in Epochs, s \in Scales :
                args = [year |-> d[1], month |-> d[2], day |-> d[3], hour |-> t[1],
                        minute |-> t[2], second |-> t[3], epoch |-> e, scale |-> s]
       \/ /\ fn = "calc_GPS_to_UTC"
          /\ \E d \in GPSDates, ts \in SeqsUpTo(TimesOfDay, MaxTimes), l \in LeapLists :
                args = [date |-> d, HOUR |-> [k \in 1..Len(ts) |-> ts[k][1]],
                        MINUTE |-> [k \in 1..Len(ts) |-> ts[k][2]],
                        SECOND |-> [k \in 1..Len(ts) |-> ts[k][3]], list |-> l]
       \/ /\ fn = "rx.match"
          /\ \E m \in Missions, d \in DateTexts, e \in Rests :
                args = [mission |-> m, date |-> d, rest |-> e]
       \/ /\ fn = "calc_julian_day"
          /\ \E d \in JulianDates, ts \in SeqsUpTo(TimesOfDay \cup {<<12, 0, 0>>}, MaxTimes) :
                args = [date |-> d, HOUR |-> [k \in 1..Len(ts) |-> ts[k][1]],
                        MINUTE |-> [k \in 1..Len(ts) |-> ts[k][2]],
                        SECOND |-> [k \in 1..Len(ts) |-> ts[k][3]]]

\* hour, minute, second = the slices of the text, as numbers
unpack_time ==
    /\ fn = "unpack_time"
    /\ ret = NoResult
    /\ ret' = Returned(TimeFields(args.text))
    /\ UNCHANGED << fn, args >>
    /\ UNCHANGED << rvars, pvars >>

call_get_leap_seconds ==
    /\ fn = "get_leap_seconds"
    /\ ret = NoResult
    /\ LET u == leap_seconds_file(args.list, args.net, args.remote)
       IN  ret' = IF u.raised # "ok" THEN Raised(u.raised)
                  ELSE Returned(get_leap_seconds(u.file, args.truncate))
    /\ UNCHANGED << fn, args >>
    /\ UNCHANGED << rvars, pvars >>

call_count_leap_seconds ==
    /\ fn = "count_leap_seconds"
    /\ ret = NoResult
    /\ LET u == leap_seconds_file(args.list, args.net, args.remote)
       IN  ret' = IF u.raised # "ok" THEN Raised(u.raised)
                  ELSE Returned(count_leap_seconds(args.GPS_Time, u.file, args.truncate))
    /\ UNCHANGED << fn, args >>
    /\ UNCHANGED << rvars, pvars >>

\* the deprecated wrapper in count_leap_seconds.py, the list not expired
call_deprecated_count_leap_seconds ==
    /\ fn = "count_leap_seconds.count_leap_seconds"
    /\ ret = NoResult
    /\ ret' = Returned(deprecated_count_leap_seconds(args.GPS_Time, args.positional,
                                                     args.keywords, args.list))
    /\ UNCHANGED << fn, args >>
    /\ UNCHANGED << rvars, pvars >>

call_convert_calendar_dates ==
    /\ fn = "convert_calendar_dates"
    /\ ret = NoResult
    /\ ret' = Returned(convert_calendar_dates(args.year, args.month, args.day, args.hour,
                                              args.minute, args.second, args.epoch,
                                              args.scale))
    /\ UNCHANGED << fn, args >>
    /\ UNCHANGED << rvars, pvars >>

call_calc_GPS_to_UTC ==
    /\ fn = "calc_GPS_to_UTC"
    /\ ret = NoResult
    /\ ret' = Returned(calc_GPS_to_UTC(args.date[1], args.date[2], args.date[3], args.HOUR,
                                       args.MINUTE, args.SECOND, args.list))
    /\ UNCHANGED << fn, args >>
    /\ UNCHANGED << rvars, pvars >>

call_calc_julian_day ==
    /\ fn = "calc_julian_day"
    /\ ret = NoResult
    /\ ret' = Returned(calc_julian_day(args.date[1], args.date[2], args.date[3], args.HOUR,
                                       args.MINUTE, args.SECOND))
    /\ UNCHANGED << fn, args >>
    /\ UNCHANGED << rvars, pvars >>

\* the match of the name and the conversion of its groups
filename_date ==
    /\ fn = "rx.match"
    /\ ret = NoResult
    /\ ret' = LET d == FilenameDate(Name(args.mission, args.date, args.rest))
              IN  IF d.kind = "date" THEN Returned(d.value) ELSE d
    /\ UNCHANGED << fn, args >>
    /\ UNCHANGED << rvars, pvars >>

NextTime ==
    \/ filename_date
    \/ unpack_time
    \/ call_get_leap_seconds
    \/ call_count_leap_seconds
    \/ call_deprecated_count_leap_seconds
    \/ call_convert_calendar_dates
    \/ call_calc_GPS_to_UTC
    \/ call_calc_julian_day

SpecTime == InitTime /\ [][NextTime]_vars

(***************************************************************************)
(* http_pull_file of scripts/nsidc_convert_ILATM1b.py                      *)
(***************************************************************************)
\* local names: a data file, the HDF5 file written for it, a metadata file
QiName == "ILATM1B_20110315_1.qi"
H5Name == "ILATM1B_20110315_1.h5"
XmlName == "ILATM1B_20110315_1.qi.xml"
LocalNames == {QiName, H5Name, XmlName}

\* os.path.splitext(local_file)[1]
fileExtension(name) ==
    IF name = QiName THEN ".qi" ELSE IF name = H5Name THEN ".h5" ELSE ".xml"

\* if (fileExtension == '.qi'): local_file = '{0}.h5'.format(fileBasename)
LocalTarget(name) == IF fileExtension(name) = ".qi" THEN H5Name ELSE name

\* a local file: absent, or with modification time, mode and content
Absent == [exists |-> FALSE]
LocalFile(mtime, mode, content) ==
    [exists |-> TRUE, st_mtime |-> mtime, st_mode |-> mode, content |-> content]

\* modification times of local files, and of the remote file
LocalTimes == {1, 2}
RemoteTimes == {1, 2, 3}
\* a write is later than all of them
WriteTime == 4
\* MODE=0o775; files made by other means have 0o644; open() makes a new file
\* with 0o666 less the umask 0o022
DefaultMODE == 509
OtherMode == 420
NewFileMode == 420

\* what the server sends: a QFIT file, a page of text in its place, metadata
RemoteContents(name) == IF fileExtension(name) = ".qi" THEN {"QFIT", "HTML"} ELSE {"XML"}

\* variant: a remote file of the same time is taken as newer
Newer_OrSame(remote_mtime, local_mtime) == remote_mtime >= local_mtime

\* if (remote_mtime > local_mtime)
Newer(remote_mtime, local_mtime) == remote_mtime > local_mtime

\* TEST: the file does not exist locally, or the remote file is newer
NeedsTransfer(f, remote_mtime) ==
    IF f.exists THEN Newer(remote_mtime, f.st_mtime) ELSE TRUE

\* open(local_file, 'wb'): the file is made, or cut to no content
OpenedForWriting(f) ==
    LocalFile(WriteTime, IF f.exists THEN f.st_mode ELSE NewFileMode, "")

\* the file once written, after os.utime and os.chmod
Transferred(content, remote_mtime, MODE) == LocalFile(remote_mtime, MODE, content)

NewPull ==
    /\ ppc = "http_pull_file"
    /\ local_file = pin.local_file
    /\ TEST = FALSE
    /\ retry_counter = 0
    /\ fid = "unbound"
    /\ attempts = 0
    /\ presult = NoResult

InitPull ==
    /\ NoReaderCall
    /\ NoFunction
    /\ \E n \in {QiName, XmlName}, t \in RemoteTimes, retry \in -1..MaxRetry,
          c \in BOOLEAN :
          \E content \in RemoteContents(n) :
            pin = [local_file |-> n, remote_mtime |-> t, RETRY |-> retry, CLOBBER |-> c,
                   MODE |-> DefaultMODE, content |-> content]
    /\ \E target \in {Absent} \cup {LocalFile(t, OtherMode, "old") : t \in LocalTimes},
          qi \in {Absent, LocalFile(1, OtherMode, "QFIT")} :
          /\ fileExtension(pin.local_file) # ".qi" => qi = Absent
          /\ fs = [n \in LocalNames |->
                     IF n = LocalTarget(pin.local_file) THEN target
                     ELSE IF n = QiName THEN qi ELSE Absent]
    /\ before = fs
    /\ pcall = 1
    /\ pprev = "none"
    /\ NewPull

\* the name of the target, TEST, and the branch on TEST or CLOBBER
pull_begin ==
    /\ ppc = "http_pull_file"
    /\ local_file' = LocalTarget(pin.local_file)
    /\ TEST' = NeedsTransfer(fs[LocalTarget(pin.local_file)], pin.remote_mtime)
    /\ IF TEST' \/ pin.CLOBBER
       THEN ppc' = "while" /\ retry_counter' = 0
       ELSE ppc' = "skipped" /\ UNCHANGED retry_counter
    /\ UNCHANGED << pin, fs, before, fid, attempts, pcall, pprev, presult >>
    /\ UNCHANGED << rvars, tvars >>

\* one pass of the loop: a request that succeeds leaves the loop, one that
\* fails is counted
pull_attempt ==
    /\ ppc = "while"
    /\ fid = "unbound"
    /\ retry_counter < pin.RETRY
    /\ attempts' = attempts + 1
    /\ \E ok \in BOOLEAN :
          IF ok THEN fid' = "response" /\ UNCHANGED retry_counter
          ELSE retry_counter' = retry_counter + 1 /\ UNCHANGED fid
    /\ UNCHANGED << pin, fs, before, ppc, local_file, TEST, pcall, pprev, presult >>
    /\ UNCHANGED << rvars, tvars >>

\* after the loop: the copy of a metadata file or the conversion of a data
\* file, then os.utime and os.chmod
pull_transfer ==
    /\ ppc = "while"
    /\ fid # "unbound" \/ retry_counter >= pin.RETRY
    /\ IF fileExtension(pin.local_file) = ".xml"
       THEN IF fid = "unbound"
            THEN \* shutil.copyfileobj(fid, f, CHUNK) inside with open(...)
                 /\ fs' = [fs EXCEPT ![local_file] = OpenedForWriting(fs[local_file])]
                 /\ ppc' = "raised"
                 /\ presult' = Raised("UnboundLocalError")
            ELSE /\ fs' = [fs EXCEPT ![local_file] =
                              Transferred(pin.content, pin.remote_mtime, pin.MODE)]
                 /\ ppc' = "transferred"
                 /\ UNCHANGED presult
       ELSE IF fid = "unbound"
            THEN \* read_ATM_QFIT_file(fid)
                 /\ ppc' = "raised"
                 /\ presult' = Raised("UnboundLocalError")
                 /\ UNCHANGED fs
            ELSE IF pin.content # "QFIT"
            THEN \* the first word of a text gives a word count above MAXARG
                 /\ ppc' = "raised"
                 /\ presult' = Raised("Exception: Unexpected number of variables")
                 /\ UNCHANGED fs
            ELSE /\ fs' = [fs EXCEPT ![local_file] =
                              Transferred("HDF5", pin.remote_mtime, pin.MODE)]
                 /\ ppc' = "transferred"
                 /\ UNCHANGED presult
    /\ UNCHANGED << pin, before, local_file, TEST, retry_counter, fid, attempts, pcall,
                    pprev >>
    /\ UNCHANGED << rvars, tvars >>

\* the same call again, the remote file unchanged, CLOBBER set or not
pull_again ==
    /\ ppc \in {"skipped", "transferred", "raised"}
    /\ pcall = 1
    /\ pcall' = 2
    /\ pprev' = ppc
    /\ before' = fs
    /\ \E c \in BOOLEAN : pin' = [pin EXCEPT !.CLOBBER = c]
    /\ ppc' = "http_pull_file"
    /\ local_file' = pin.local_file
    /\ TEST' = FALSE
    /\ retry_counter' = 0
    /\ fid' = "unbound"
    /\ attempts' = 0
    /\ presult' = NoResult
    /\ UNCHANGED fs
    /\ UNCHANGED << rvars, tvars >>

NextPull ==
    \/ pull_begin
    \/ pull_attempt
    \/ pull_transfer
    \/ pull_again

SpecPull == InitPull /\ [][NextPull]_vars

(***************************************************************************)
(* Properties                                                              *)
(***************************************************************************)
\* the first word of the file is 4*wc for a word count wc of 10..14
SupportedFirstWord == input.first \in {itemsize * wc : wc \in 10..14}

\* get_record_length has returned (a name without a date ends the call
\* before it is called)
Detected ==
    pc \notin {"open", "get_record_length"} /\ result # Raised("AttributeError")

\* the call is over
Finished == pc \in {"returned", "raised"}

\* C1: for every file whose first word is 4*wc with wc in 10..14, written
\* big-endian or little-endian, get_record_length returns n_blocks = wc and
\* the byte order the file was written in.
C1_DetectsFormat ==
    (Detected /\ SupportedFirstWord)
        => (n_blocks = input.first \div itemsize /\ dtype = order)

C1_Witness ==
    /\ pc = "check_MAXARG"
    /\ order = "<i4"
    /\ dtype = "<i4"
    /\ n_blocks = 14
    /\ input.first = 56

\* C2: two files holding the same 32-bit word values, one big-endian and one
\* little-endian, with a word count in 10..14, give the same outcome of
\* read_ATM1b_QFIT_binary: the same record count and the same value in every
\* field of every record.
C2_ByteOrderIndependent ==
    (call = 2 /\ Finished /\ entry = "read_ATM1b_QFIT_binary" /\ SupportedFirstWord)
        => /\ result.kind = prev.kind
           /\ result.kind = "dataset" => result.data = prev.data

C2_Witness ==
    /\ call = 2
    /\ pc = "returned"
    /\ entry = "read_ATM1b_QFIT_binary"
    /\ SupportedFirstWord
    /\ result.kind = "dataset"
    /\ prev.kind = "dataset"
    /\ ~ SUBSETTER.given
    /\ n_records = 2
    /\ Len(input.hs) >= 1
    /\ result.data["latitude"][2] = ScaleValue(MinInt32, "f", 1000000)
    /\ result.data["time_hhmmss"][1] = ScaleValue(153320100, "f", 1000)

\* C3: a detected word count above 14 is fatal: the call raises before any
\* header record or data record is read, and hands back no dataset, header
\* text or record count.
C3_TooManyBlocksIsFatal ==
    (Detected /\ n_blocks > MAXARG)
        => /\ pc \in {"check_MAXARG", "raised"}
           /\ pc = "raised" => result.kind = "exception"
           /\ pc = "check_MAXARG" => result.kind = "none"
           /\ header_count = 0
           /\ header_text = <<>>
           /\ n_records = 0
           /\ r = 0
           /\ ATM_L1b_input = NoArrays

C3_Witness ==
    /\ pc = "raised"
    /\ n_blocks = 15
    /\ dtype = "<i4"
    /\ result = Raised("Exception: Unexpected number of variables")
    /\ Len(input.hs) >= 1
    /\ Len(input.ds) >= 1

\* C4: record decoding accepts only the word counts 10, 12 and 14; with any
\* other detected word count that is not above 14 the call fails instead of
\* returning records decoded with one of the three layouts.
C4_OnlyThreeWordCounts ==
    result.kind = "dataset" => n_blocks \in {10, 12, 14}

\* C5 as stated: after get_record_length returns, the stream is at the
\* start of the file.
C5_PositionZero ==
    pc = "check_MAXARG" => pos = 0

\* C5: after get_record_length returns, the stream is just past the first
\* record of the file, at byte n_blocks*4, whenever the file holds that
\* many words.
C5_PositionPastFirstRecord ==
    (pc = "check_MAXARG" /\ n_blocks >= 0 /\ n_blocks <= st_size \div itemsize)
        => pos = n_blocks * itemsize

C5_Witness ==
    /\ pc = "check_MAXARG"
    /\ dtype = "<i4"
    /\ n_blocks = 12
    /\ pos = 48
    /\ st_size > 48

\* number of header filler records that follow the first record of the file
K == Len(input.hs)

\* the header was read and at least one data record follows the filler
HeaderReturned == pc = "count_records" /\ Len(input.ds) >= 1

\* C6 as stated: with K filler records followed by a data record,
\* read_ATM1b_QFIT_header returns a header byte length of K * wordCount * 4.
C6_HeaderLengthK ==
    HeaderReturned => header_count = K * n_blocks * itemsize

\* C6: with K filler records followed by a data record,
\* read_ATM1b_QFIT_header returns (K + 1) * wordCount * 4: the record that
\* ends the loop is counted too.
C6_HeaderLengthKPlusOne ==
    HeaderReturned => header_count = (K + 1) * n_blocks * itemsize

C6_Witness ==
    /\ HeaderReturned
    /\ K = 2
    /\ n_blocks = 10
    /\ header_count = 120

\* byte offset of the first data record in the file as it was laid out
FirstDataOffset == itemsize * LayoutWords(input.first) * (1 + K)

\* the words of record 1 of the data, as decoded by the reader at offset p
WordsAt(p) == WordsOf(ReadAt(file, p, itemsize * LayoutWords(input.first)), order)

\* C7: on a file laid out as first record, K filler records, data records,
\* get_record_length followed by read_ATM1b_QFIT_header leaves the stream at
\* the first byte of the first data record and returns header_count equal to
\* that offset: the record read next is the first data record.
C7_StreamAtFirstDataRecord ==
    (Len(input.ds) >= 1
        /\ (pc \in {"count_records", "read_ATM1b_QFIT_records"}
              \/ (pc = "for_records" /\ r = 0)))
        => /\ pos = FirstDataOffset
           /\ header_count = pos
           /\ WordsAt(pos) = RecordWords(input.ds[1].first, input.ds[1].body,
                                         input.ds[1].last, LayoutWords(input.first))

C7_Witness ==
    /\ pc = "for_records"
    /\ r = 0
    /\ K = 2
    /\ Len(input.ds) = 2
    /\ order = "<i4"
    /\ pos = 3 * 14 * itemsize

\* the bytes after the first word of the k-th filler record
FillerText(k) ==
    LET nb == LayoutWords(input.first)
    IN  SubSeq(file, itemsize * nb * k + itemsize + 1, itemsize * nb * (k + 1))

\* C8: the header text is the concatenation, in file order, of the bytes
\* after the first word of every filler record, with NUL bytes removed and
\* trailing whitespace stripped; no byte of the last filler record is lost.
C8_HeaderTextComplete ==
    HeaderReturned
        => header_text = RStrip(RemoveNUL(Flatten([k \in 1..K |-> FillerText(k)])))

\* floor((file_size - header_count) / (n_blocks * 4))
WholeRecords == (st_size - header_count) \div (n_blocks * itemsize)

\* C9: the record count of read_ATM1b_QFIT_binary without subsetter and the
\* value returned by ATM1b_QFIT_shape are floor((file_size - header_count) /
\* (n_blocks * 4)); every returned array, time_J2000 included, has that
\* length, or the length of the subsetter when one is given.
C9_RecordCount ==
    /\ result.kind = "shape" => result.n_records = WholeRecords
    /\ result.kind = "dataset"
        => /\ "time_J2000" \in DOMAIN result.data
           /\ n_records = (IF SUBSETTER.given THEN Len(SUBSETTER.idx) ELSE WholeRecords)
           /\ \A name \in DOMAIN result.data : Len(result.data[name]) = n_records

C9_Witness ==
    /\ result.kind = "dataset"
    /\ ~ SUBSETTER.given
    /\ input.trail > 0
    /\ K = 1
    /\ Len(input.ds) = 2
    /\ n_records = 2
    /\ Len(result.data["time_J2000"]) = 2

\* the fields of the format table: name, raw kind, scale divisor
Field(n, d, sc) == [name |-> n, kind |-> d, scale |-> sc]
FirstNine ==
    << Field("rel_time", "f", 1000), Field("latitude", "f", 1000000),
       Field("longitude", "f", 1000000), Field("elevation", "f", 1000),
       Field("xmt_sigstr", "i", 1), Field("rcv_sigstr", "i", 1),
       Field("azimuth", "f", 1000), Field("pitch", "f", 1000),
       Field("roll", "f", 1000) >>
FormatTable(wc) ==
    FirstNine
      \o (IF wc = 12 THEN << Field("gps_pdop", "f", 10), Field("pulse_width", "i", 1) >>
          ELSE IF wc = 14
          THEN << Field("passive_sig", "i", 1), Field("pass_foot_lat", "f", 1000000),
                  Field("pass_foot_long", "f", 1000000),
                  Field("pass_foot_synth_elev", "f", 1000) >>
          ELSE <<>>)
      \o << Field("time_hhmmss", "f", 1000) >>

\* the layout the reader uses for a word count, column by column
UsedLayout(wc) ==
    LET w == VariantIndex(wc)
    IN  [c \in 1..Len(PyIndex(variable_table, w)) |->
            Field(PyIndex(variable_table, w)[c], PyIndex(dtype_table, w)[c],
                  PyIndex(scaling_table, w)[c])]

RawRecord(k) ==
    RecordWords(input.ds[k].first, input.ds[k].body, input.ds[k].last,
                LayoutWords(input.first))

\* a full decode of a file of one of the three layouts has returned
FullDecodeReturned ==
    result.kind = "dataset" /\ ~ SUBSETTER.given /\ n_blocks \in {10, 12, 14}

\* the odd part of a nonzero integer and its number of factors 2
RECURSIVE OddPart(_)
OddPart(n) == IF n % 2 = 0 THEN OddPart(n \div 2) ELSE n
RECURSIVE TwoFactors(_)
TwoFactors(n) == IF n % 2 = 0 THEN 1 + TwoFactors(n \div 2) ELSE 0

\* the float32 x is exactly the quotient v/s of the integers v and s > 0:
\* with |x| = mo * 2^g, mo odd, either g >= 0 and |v| = mo * 2^g * s,
\* or g < 0, 2^-g divides s and |v| = mo * (s / 2^-g)
IsQuotient(x, v, s) ==
    IF v = 0 THEN x.m = 0
    ELSE /\ x.m # 0
         /\ x.neg = (v < 0)
         /\ LET mo == OddPart(x.m)
                g == x.e + TwoFactors(x.m)
                nv == IF v > 0 THEN -v ELSE v
            IN  IF g >= 0
                THEN /\ nv % s = 0
                     /\ OddPart(nv \div s) = -mo
                     /\ TwoFactors(nv \div s) = g
                ELSE /\ -g <= 30
                     /\ s % Pow2(-g) = 0
                     /\ nv % (s \div Pow2(-g)) = 0
                     /\ nv \div (s \div Pow2(-g)) = -mo

\* C11: in each of the three layouts, every field of every record decodes
\* to exactly its raw word divided by the scale of the field in the format
\* table.
C11_ScaleRoundTrip ==
    FullDecodeReturned
        => \A k \in 1..n_records : \A c \in 1..n_blocks :
              LET f == FormatTable(n_blocks)[c]
                  x == result.data[f.name][k]
                  v == RawRecord(k)[c]
              IN  IF f.kind = "f" THEN IsQuotient(x, v, f.scale)
                  ELSE f.scale = 1 /\ x = v

\* the integer-kind fields of the format table
IntegerFields == {"xmt_sigstr", "rcv_sigstr", "pulse_width", "passive_sig"}

\* C12: the integer-kind fields decode to exactly the signed 32-bit value
\* of their raw word, whatever the value and the byte order of the file.
C12_IntegerFieldsExact ==
    FullDecodeReturned
        => \A k \in 1..n_records : \A c \in 1..n_blocks :
              FormatTable(n_blocks)[c].name \in IntegerFields
                  => result.data[FormatTable(n_blocks)[c].name][k] = RawRecord(k)[c]

C12_Witness ==
    /\ FullDecodeReturned
    /\ order = "<i4"
    /\ n_blocks = 14
    /\ n_records = 2
    /\ result.data["passive_sig"] = <<2147483647, MinInt32>>
    /\ result.data["xmt_sigstr"] = <<2147483647, MinInt32>>

\* C13: when every index of the SUBSETTER is one of 0..N-1, N the record
\* count of the file, the call reads record j at byte offset header_count +
\* n_blocks*4*indices[j], and element j of every returned array is element
\* indices[j] of the same array in the decode of the file without SUBSETTER.
C13_SubsetAgreesWithFull ==
    /\ (call = 1 /\ SUBSETTER.given /\ pc = "for_records")
          => offsets = [j \in 1..Len(SUBSETTER.idx) |->
                            header_count + n_blocks * itemsize * SUBSETTER.idx[j]]
    /\ (call = 3 /\ result.kind = "dataset"
            /\ \A j \in 1..Len(prev.idx) : prev.idx[j] \in 0..(n_records - 1))
          => /\ prev.kind = "dataset"
             /\ DOMAIN prev.data = DOMAIN result.data
             /\ \A name \in DOMAIN result.data :
                   /\ Len(prev.data[name]) = Len(prev.idx)
                   /\ \A j \in 1..Len(prev.idx) :
                         prev.data[name][j] = result.data[name][prev.idx[j] + 1]

C13_Witness ==
    /\ call = 3
    /\ result.kind = "dataset"
    /\ n_records = 2
    /\ K = 1
    /\ prev.kind = "dataset"
    /\ prev.idx = <<1, 0, 1>>
    /\ result.data["xmt_sigstr"] = <<2147483647, MinInt32>>
    /\ prev.data["xmt_sigstr"] = <<MinInt32, 2147483647, MinInt32>>
    /\ prev.data["time_hhmmss"][2] = ScaleValue(153320100, "f", 1000)

\* a text has been cut into hour, minute and second
TimeUnpacked == fn = "unpack_time" /\ ret.kind = "value"

\* the text 153320.100, ten characters wide
UnpaddedText == Tail(PaddedText)

\* C14 (as stated): the text 0153320.100, cut at [0:2], [2:4] and [4:],
\* gives hour 15, minute 33 and second 20.100.
C14_PaddedTextParses ==
    (TimeUnpacked /\ args.text = PaddedText)
        => ret.value = [hour |-> 15, minute |-> 33, second |-> 20100]

\* C14 (amended): cut at [0:2], [2:4] and [4:], the ten characters
\* 153320.100 give hour 15, minute 33 and second 20.100, and the eleven
\* characters 0153320.100 give hour 1, minute 53 and second 320.100.
C14_TextOfWidthTenParses ==
    TimeUnpacked
        => /\ args.text = UnpaddedText
                => ret.value = [hour |-> 15, minute |-> 33, second |-> 20100]
           /\ args.text = PaddedText
                => ret.value = [hour |-> 1, minute |-> 53, second |-> 320100]

C14_Witness ==
    /\ TimeUnpacked
    /\ args.text = UnpaddedText
    /\ Len(args.text) = 10
    /\ ret.value.hour = 15

\* a raw time word hhmmssfff with hh <= 23, mm <= 59 and ss.fff < 60
ValidPackedTime(v) ==
    /\ v >= 0
    /\ v \div 10000000 <= 23
    /\ (v \div 100000) % 100 <= 59
    /\ v % 100000 < 60000

\* the column of a field in the layout of n words
FieldColumn(wc, name) == CHOOSE c \in 1..wc : FormatTable(wc)[c].name = name

\* C15: for every record whose packed time hhmmss.fff is a valid time of
\* day, the unpacked hour is hh, the minute mm and the second ss.fff.
C15_UnpackedTimeIsPackedTime ==
    FullDecodeReturned
        => \A k \in 1..n_records :
              LET v == RawRecord(k)[FieldColumn(n_blocks, "time_hhmmss")]
              IN  ValidPackedTime(v)
                    => /\ hour[k] = v \div 10000000
                       /\ minute[k] = (v \div 100000) % 100
                       /\ second[k] = v % 100000

\* days from the NTP epoch 1900-01-01 to the GPS epoch 1980-01-06:
\* 2524953600 seconds
NTP_to_GPS_days == 29224

\* ntp_seconds + tai_utc_offset - 19 - 1 - 2524953600 for an entry of a list
TableEntry(t) == Num(t.days - NTP_to_GPS_days, t.secs + t.tai_utc - 19 - 1, 0, 0)

\* the entry is in the table
InTable(t, truncate) == ~ truncate \/ TableEntry(t).hi >= 0

\* the list that the call reads: the local list, or the list of a server
\* when the local one has expired and a download has succeeded
ListRead ==
    IF args.net.expiry < args.net.today /\ (args.net.ftp = "ok" \/ args.net.http = "ok")
    THEN args.remote ELSE args.list

\* C16: count_leap_seconds gives, for each GPS time T of its argument, the
\* number of table entries <= T: 0 before the first entry, the length of
\* the table from the last entry on, and no less for a later T.
C16_CountsEntriesUpToT ==
    (fn = "count_leap_seconds" /\ ret.kind = "value")
        => LET T == args.GPS_Time
               n == ret.value
               table == {i \in 1..Len(ListRead) : InTable(ListRead[i], args.truncate)}
               first == CHOOSE i \in table : \A j \in table : i <= j
               last == CHOOSE i \in table : \A j \in table : j <= i
           IN  /\ Len(n) = Len(T)
               /\ \A k \in 1..Len(T) :
                     /\ n[k] = Cardinality({i \in table :
                                               NumGE(T[k], TableEntry(ListRead[i]))})
                     /\ (table # {} /\ ~ NumGE(T[k], TableEntry(ListRead[first])))
                           => n[k] = 0
                     /\ (table # {} /\ NumGE(T[k], TableEntry(ListRead[last])))
                           => n[k] = Cardinality(table)
               /\ \A j, k \in 1..Len(T) : NumGE(T[k], T[j]) => n[j] <= n[k]

C16_Witness ==
    /\ fn = "count_leap_seconds"
    /\ args.list = LeapSecondsList
    /\ args.truncate
    /\ args.GPS_Time = << NumOfInt(46828800), NumOfInt(46828799) >>
    /\ ret.kind = "value"
    /\ ret.value = << 1, 0 >>

\* C17: get_leap_seconds gives, in the order of the list, the GPS time
\* ntp_seconds + tai_utc_offset - 19 - 1 - 2524953600 of every entry, of
\* every entry with a GPS time >= 0 when truncate is set.
C17_LeapTimesInGPS ==
    (fn = "get_leap_seconds" /\ ret.kind = "value")
        => LET all == [i \in 1..Len(ListRead) |-> TableEntry(ListRead[i])]
           IN  ret.value = IF args.truncate
                           THEN SelectSeq(all, LAMBDA g : g.hi >= 0)
                           ELSE all

C17_Witness ==
    /\ fn = "get_leap_seconds"
    /\ args.truncate
    /\ args.list = << Leap(29219, 0, 19), Leap(29224, 0, 20), Leap(29766, 0, 21) >>
    /\ ret.kind = "value"
    /\ ret.value = << NumOfInt(0), NumOfInt(46828801) >>

\* C18: convert_calendar_dates gives scale times the days from the epoch
\* to the date on the Gregorian calendar plus the time of day as a fraction
\* of a day.
C18_DaysOnGregorianCalendar ==
    (fn = "convert_calendar_dates" /\ ret.kind = "value")
        => LET days == DateOrdinal(args.year, args.month, args.day)
                         - DateOrdinal(args.epoch[1], args.epoch[2], args.epoch[3])
               secs == args.hour * 3600 + args.minute * 60 + args.second \div 1000
                         - (args.epoch[4] * 3600 + args.epoch[5] * 60 + args.epoch[6])
               ms == args.second % 1000
           IN  ret.value = IF args.scale = ScaleSeconds
                           THEN NumAdd(Num(days, secs, 0, 0), NumOfMillis(ms))
                           ELSE IF args.scale = ScalePerDay
                           THEN Num(0, 0, days, 1000 * secs + ms)
                           ELSE Num(0, days, secs, ms * Base)

\* C19: calc_GPS_to_UTC gives count_leap_seconds of the seconds from
\* 1980-01-06T00:00:00 to the date and time, which is 15 for every time of
\* the day 2011-03-15.
C19_LeapSecondsOfTheDate ==
    (fn = "calc_GPS_to_UTC" /\ ret.kind = "value")
        => LET days == DateOrdinal(args.date[1], args.date[2], args.date[3])
                         - DateOrdinal(1980, 1, 6)
               GPS_Time == [k \in 1..Len(args.HOUR) |->
                               NumAdd(Num(days, args.HOUR[k] * 3600 + args.MINUTE[k] * 60, 0, 0),
                                      NumOfMillis(args.SECOND[k]))]
           IN  /\ ret.value = count_leap_seconds(GPS_Time, args.list, TRUE)
               /\ (args.date = <<2011, 3, 15>> /\ args.list = LeapSecondsList)
                     => \A k \in 1..Len(ret.value) : ret.value[k] = 15

\* C20: time_J2000 of every record is the seconds from 2000-01-01T12:00:00
\* to the date of the file at the unpacked hour, minute and second less the
\* leap seconds S.
C20_SecondsSinceJ2000 ==
    FullDecodeReturned
        => LET days == DateOrdinal(FileDate[1], FileDate[2], FileDate[3])
                         - DateOrdinal(2000, 1, 1)
               S == calc_GPS_to_UTC(FileDate[1], FileDate[2], FileDate[3],
                                    hour, minute, second, LeapSecondsList)
           IN  \A k \in 1..n_records :
                  result.data["time_J2000"][k]
                      = NumAdd(Num(days, hour[k] * 3600 + minute[k] * 60 - 43200, 0, 0),
                               NumOfMillis(second[k] - 1000 * S[k]))

\* C21: calc_julian_day gives the Julian Day of the date and time: the days
\* from 1858-11-17T00:00:00 plus 2400000.5, which is 2451545.0 for
\* 2000-01-01 12:00:00 and 1 more for the same time a day later.
C21_JulianDay ==
    (fn = "calc_julian_day" /\ ret.kind = "value")
        => LET days == DateOrdinal(args.date[1], args.date[2], args.date[3])
                         - DateOrdinal(1858, 11, 17)
           IN  /\ Len(ret.value) = Len(args.HOUR)
               /\ \A k \in 1..Len(args.HOUR) :
                     ret.value[k] =
                        Num(0, 2400000 + days,
                            43200 + args.HOUR[k] * 3600 + args.MINUTE[k] * 60
                                + args.SECOND[k] \div 1000,
                            (args.SECOND[k] % 1000) * Base)
               /\ (args.date = <<2000, 1, 1>> /\ args.HOUR = <<12>> /\ args.MINUTE = <<0>>
                      /\ args.SECOND = <<0>>)
                     => ret.value = << NumOfInt(2451545) >>

\* the local list has expired and the download has failed on both servers
\* the date a name is written with: four or two digits of year, two of
\* month, two of day
DateWritten(d) ==
    LET w == Len(d) - 4
        y == DigitsValue(SubSeq(d, 1, w))
    IN  << IF w = 4 THEN y ELSE IF y >= 90 THEN 1900 + y ELSE 2000 + y,
           DigitsValue(SubSeq(d, w + 1, w + 2)), DigitsValue(SubSeq(d, w + 3, w + 4)) >>
DateExtracted == fn = "rx.match" /\ ret # NoResult /\ EndsWithQi(args.rest)
TwoDigitsFollow(e) == Len(e) >= 2 /\ IsDigit(e[1]) /\ IsDigit(e[2])

RecordPlace(k) ==
    IF SUBSETTER.given THEN offsets[k]
    ELSE header_count + (k - 1) * n_blocks * itemsize
WordsRead(k) == WordsOf(ReadAt(file, RecordPlace(k), n_blocks * itemsize), dtype)

\* C23: a dataset is returned only when each of its records was decoded
\* from a complete record of n_blocks words, every word of it assigned to
\* a field of the layout
C23_OnlyCompleteRecords ==
    pc = "returned" /\ result.kind = "dataset"
        => \A k \in 1..n_records :
              /\ Len(WordsRead(k)) = n_blocks
              /\ AssignedColumns(WordsRead(k), VariantIndex(n_blocks)) = 1..n_blocks

\* C25: the header is returned as a string whatever its bytes are; its
\* decoding never fails
C25_HeaderOfAnyBytes ==
    pc = "raised" => result # Raised("UnicodeDecodeError")

\* C29: the file is closed when the call has ended, by a return or by an
\* error
C29_FileClosedWhenCallEnds ==
    Finished => ~fid_open

\* the header has been read, or the call has ended before or in it
PastHeader ==
    pc \notin {"open", "get_record_length", "check_MAXARG", "read_ATM1b_QFIT_header",
               "header_while"}

\* one record is read in each pass; the loop is left at the first record
\* whose first word is not negative, which is the first data record; a file
\* that ends before such a record ends the call with an error
HeaderLoopSteps ==
    /\ pc = "header_while"
          => /\ header_count % (itemsize * n_blocks) = 0
             /\ header_count \div (itemsize * n_blocks) <= K + 1
             /\ pos = itemsize * n_blocks + header_count
    /\ pc = "count_records"
          => /\ Len(input.ds) >= 1
             /\ header_count = itemsize * n_blocks * (K + 1)
             /\ value0 = input.ds[1].first
    /\ (PastHeader /\ Len(input.ds) = 0) => (pc = "raised" /\ result.kind = "exception")
    /\ result = Raised("ValueError") => Len(input.ds) = 0

\* C30: read_ATM1b_QFIT_header terminates: the loop reads one record in
\* each pass and is left at the first record with a non-negative first
\* word, and when the file ends before it the call ends with an error
C30_HeaderTerminates ==
    /\ []HeaderLoopSteps
    /\ (pc = "header_while") ~> (pc \in {"count_records", "raised"})

C30_Witness ==
    /\ pc = "raised"
    /\ result = Raised("ValueError")
    /\ K = MaxK
    /\ input.ds = <<>>
    /\ input.trail = MaxTrail
    /\ header_count = itemsize * n_blocks * K
    /\ pos = st_size

\* the file a call of http_pull_file is to write: the .h5 name for a .qi
PullTarget == IF pin.local_file = QiName THEN H5Name ELSE pin.local_file
Tested == ppc \notin {"none", "http_pull_file"}
TargetIsNew ==
    IF before[PullTarget].exists THEN pin.remote_mtime > before[PullTarget].st_mtime
    ELSE TRUE

\* C27: a transfer is made exactly when the target does not exist, or the
\* remote time is greater than the local one, or CLOBBER is set; after a
\* transfer the target has the remote time, and the call repeated at once
\* without CLOBBER requests nothing and changes no local file
C27_TransfersWhatIsNewer ==
    /\ Tested => ((ppc # "skipped") <=> (TargetIsNew \/ pin.CLOBBER))
    /\ ppc = "skipped" => (attempts = 0 /\ fs = before)
    /\ ppc = "transferred"
          => (fs[PullTarget].exists /\ fs[PullTarget].st_mtime = pin.remote_mtime)
    /\ (pcall = 2 /\ pprev = "transferred" /\ ~ pin.CLOBBER /\ Tested)
          => (ppc = "skipped" /\ attempts = 0 /\ fs = before)

C27_Witness ==
    /\ pcall = 2
    /\ pprev = "transferred"
    /\ ~ pin.CLOBBER
    /\ ppc = "skipped"
    /\ pin.local_file = QiName
    /\ fs[QiName] = Absent
    /\ fs[H5Name] = LocalFile(2, DefaultMODE, "HDF5")

\* C28: at most RETRY requests are made, none after one that succeeded;
\* when all have failed, or RETRY is not positive, the call ends in an error
\* and every local file is as it was before the call
C28_FailedPullChangesNothing ==
    /\ attempts <= Max(pin.RETRY, 0)
    /\ fid # "unbound" => attempts = retry_counter + 1
    /\ (ppc \in {"transferred", "raised"} /\ fid = "unbound")
          => (ppc = "raised" /\ fs = before)

RefreshFailed ==
    /\ args.net.expiry < args.net.today
    /\ args.net.ftp = "error"
    /\ args.net.http = "error"

\* C24: when the leap second list has expired and the refresh fails on every
\* server, get_leap_seconds and count_leap_seconds still return, and what
\* they return is computed from the local list.
C24_ExpiredListIsStillUsed ==
    (fn \in {"get_leap_seconds", "count_leap_seconds"} /\ ret.kind # "none" /\ RefreshFailed)
        => /\ ret.kind = "value"
           /\ fn = "get_leap_seconds"
                => LET all == [i \in 1..Len(args.list) |-> TableEntry(args.list[i])]
                   IN  ret.value = IF args.truncate
                                   THEN SelectSeq(all, LAMBDA g : g.hi >= 0)
                                   ELSE all
           /\ fn = "count_leap_seconds"
                => ret.value =
                     [k \in 1..Len(args.GPS_Time) |->
                        Cardinality({i \in 1..Len(args.list) :
                                        /\ InTable(args.list[i], args.truncate)
                                        /\ NumGE(args.GPS_Time[k], TableEntry(args.list[i]))})]

C24_Witness ==
    /\ fn = "get_leap_seconds"
    /\ RefreshFailed
    /\ args.list = SubSeq(LeapSecondsList, 1, 11)
    /\ args.remote = LeapSecondsList
    /\ ~ args.truncate
    /\ ret.kind = "value"
    /\ Len(ret.value) = 11

\* C26: the deprecated count_leap_seconds.count_leap_seconds returns what
\* time.count_leap_seconds returns for the same arguments, truncate passed
\* by position, by keyword or not at all.
C26_WrapperReturnsTheSame ==
    (fn = "count_leap_seconds.count_leap_seconds" /\ ret.kind = "value")
        => ret.value = count_leap_seconds_call(args.GPS_Time, args.positional,
                                               args.keywords, args.list)

====
